---------------------------- MODULE Spec2Model ----------------------------
(***************************************************************************)
(* Model of src/asm/output.c (RGBDS assembler, object file emission).      *)
(*                                                                         *)
(* Pointers are indices: a node, symbol, section, patch or assertion is a  *)
(* positive index into its table and 0 is NULL.  Bytes are naturals below  *)
(* 256; uint32_t values are represented as told below.                     *)
(***************************************************************************)
EXTENDS Integers, Sequences, FiniteSets, TLC

(***************************************************************************)
(* Bounds of the model.                                                    *)
(***************************************************************************)
\* at most this many calls of out_RegisterNode, out_CreatePatch and
\* out_CreateAssert are made by the front end before out_WriteObject
MaxCalls == 2

(***************************************************************************)
(* Integers.  The model checker's integers are 32 bits wide, so a uint32_t *)
(* is represented by the int32_t that has the same 32 bits: 0 .. 2^31 - 1  *)
(* stand for themselves, 0x80000000 .. 0xFFFFFFFF are -2^31 .. -1.  A byte *)
(* is a natural below 256.                                                 *)
(***************************************************************************)
TwoTo8 == 256
MaxInt32 == 2147483647
\* (uint32_t)-1: the "no ID" value of FileStackNode.ID and Symbol.ID
NoID == -1

\* i + 1 on a uint32_t
Inc32(i) == IF i = MaxInt32 THEN (-MaxInt32) - 1 ELSE i + 1
\* (uint32_t)i of an int32_t: the same 32 bits
U32(i) == i
\* conversion to uint8_t, as done by fputc and by a store into a uint8_t:
\* the low 8 bits
U8(i) == i % TwoTo8
\* i >> n on a uint32_t, 1 <= n <= 31: a logical shift, zeros come in
Shr(i, n) ==
  IF i >= 0 THEN i \div (2 ^ n) ELSE (i \div (2 ^ n)) + 2 ^ (32 - n)

(***************************************************************************)
(* linkdefs.h: RPN opcodes, symbol types, object file version.             *)
(***************************************************************************)
RPN_ADD       == 0
RPN_BANK_SYM  == 80
RPN_BANK_SECT == 81
RPN_CONST     == 128
RPN_SYM       == 129
SYMTYPE_LOCAL  == 0
SYMTYPE_IMPORT == 1
SYMTYPE_EXPORT == 2
PATCHTYPE_BYTE == 0
ASSERT_ERROR == 1
RGBDS_OBJECT_REV == 6
\* "RGB9": RGBDS_OBJECT_VERSION_STRING printed with RGBDS_OBJECT_VERSION_NUMBER
ObjectVersionString == <<82, 71, 66, 57>>

(***************************************************************************)
(* The front end's tables this file reads: file stack nodes (fstack.h),    *)
(* symbols (symbol.h), sections (section.h).  Only the fields written by   *)
(* output.c (ID, next, patches) are state; the others are fixed here.      *)
(***************************************************************************)
SECTTYPE_ROMX == 2
SECTTYPE_ROM0 == 3
SECTION_UNION == 1
SECTION_FRAGMENT == 2
NODE_REPT == 0
NODE_FILE == 1
NODE_MACRO == 2

\* node 1 is the root file, 2 a macro called from 1, 3 a REPT inside 2,
\* 4 a file included from 1
FileStack == <<
  [parent |-> 0, lineNo |-> 0, type |-> NODE_FILE,  name |-> <<109>>,
   reptDepth |-> 0, iters |-> <<>>],
  [parent |-> 1, lineNo |-> 7, type |-> NODE_MACRO, name |-> <<109, 58>>,
   reptDepth |-> 0, iters |-> <<>>],
  [parent |-> 2, lineNo |-> 300, type |-> NODE_REPT, name |-> <<>>,
   reptDepth |-> 2, iters |-> <<5, 1>>],
  [parent |-> 1, lineNo |-> 9, type |-> NODE_FILE,  name |-> <<105>>,
   reptDepth |-> 0, iters |-> <<>>] >>

Nodes == 1 .. Len(FileStack)

\* section 1 "s" is a floating ROM0 section with two bytes of data,
\* section 2 "w" is a WRAM0 union at $C000
SectionTab == <<
  [name |-> <<115>>, size |-> 2, type |-> SECTTYPE_ROM0, modifier |-> 0,
   org |-> -1, bank |-> -1, align |-> 0, alignOfs |-> 0,
   data |-> <<17, 34>>, next |-> 2],
  [name |-> <<119>>, size |-> 4, type |-> 0, modifier |-> SECTION_UNION,
   org |-> 49152, bank |-> 0, align |-> 4, alignOfs |-> 1,
   data |-> <<>>, next |-> 0] >>

\* section.h
sect_HasData(type) == type \in {SECTTYPE_ROM0, SECTTYPE_ROMX}

Sections == 1 .. Len(SectionTab)

\* "@" is the PC; "a" is an imported, unresolved reference; "b" is a label
\* of section 1; "c" is an EQU constant of value 0xFFFFFFFE
SymbolTab == <<
  [name |-> <<64>>, isPC |-> TRUE,  isDefined |-> TRUE,  isConstant |-> FALSE,
   value |-> 0,   src |-> 1, fileLine |-> 0,  section |-> 1],
  [name |-> <<97>>, isPC |-> FALSE, isDefined |-> FALSE, isConstant |-> FALSE,
   value |-> 0,   src |-> 3, fileLine |-> 12, section |-> 0],
  [name |-> <<98>>, isPC |-> FALSE, isDefined |-> TRUE,  isConstant |-> FALSE,
   value |-> 258, src |-> 4, fileLine |-> 3,  section |-> 1],
  [name |-> <<99>>, isPC |-> FALSE, isDefined |-> TRUE,  isConstant |-> TRUE,
   value |-> -2, src |-> 2, fileLine |-> 5, section |-> 0] >>

Symbols == 1 .. Len(SymbolTab)

\* symbol.c
sym_FindSymbol(tzSym) == CHOOSE s \in Symbols : SymbolTab[s].name = tzSym
sym_IsConstant(s) == SymbolTab[s].isConstant
sym_GetConstantValue(tzSym) == SymbolTab[sym_FindSymbol(tzSym)].value
sym_IsPC(s) == SymbolTab[s].isPC
sym_IsDefined(s) == SymbolTab[s].isDefined
sym_GetSection(s) == SymbolTab[s].section

(***************************************************************************)
(* State.                                                                  *)
(***************************************************************************)
VARIABLES
  nodes,             \* per node: [ID, next], the fields out_RegisterNode writes
  fileStackNodes,    \* head of the list of registered nodes
  syms,              \* per symbol: [ID, next, isExported]
  objectSymbols,     \* head of the list of symbols to put in the object file
  objectSymbolsTail, \* 0: &objectSymbols, s: &syms[s].next
  nbSymbols,         \* length of the above list
  patches,           \* every struct Patch allocated so far, by address
  sectPatches,       \* per section: head of its patch list
  asserts,           \* every struct Assertion allocated and not freed
  assertions,        \* head of the assertion list
  ret,               \* what the last out_CreateAssert returned ("-": no call yet)
  nCalls,            \* number of calls made by the front end so far
  pc,                \* "asm" while assembling, then out_WriteObject's position
  f,                 \* bytes written to the object file
  pSectionList       \* head of the section list, kept by the front end

vars == <<nodes, fileStackNodes, syms, objectSymbols, objectSymbolsTail,
          nbSymbols, patches, sectPatches, asserts, assertions, ret, nCalls,
          pc, f, pSectionList>>

(***************************************************************************)
(* The registry part of the state, passed through the operators below as   *)
(* one record.  fatal is set when fatalerror() was called.                 *)
(***************************************************************************)
Cur == [nodes |-> nodes, fileStackNodes |-> fileStackNodes, syms |-> syms,
        objectSymbols |-> objectSymbols,
        objectSymbolsTail |-> objectSymbolsTail, nbSymbols |-> nbSymbols,
        fatal |-> FALSE]

\* a local variable: Body of the value v that was computed once
Let(v, Body(_)) == Body(v)

\* mutant: the count is taken to be the ID of the head, not the ID plus one
getNbFileStackNodes_NoIncrement(r) ==
  IF r.fileStackNodes # 0 THEN r.nodes[r.fileStackNodes].ID ELSE 0

getNbFileStackNodes(r) ==
  IF r.fileStackNodes # 0 THEN Inc32(r.nodes[r.fileStackNodes].ID) ELSE 0

\* mutant: the ID is not compared with -1, the node is linked in any case
RegisterOne_NoOverflowCheck(r, node) ==
  [r EXCEPT !.nodes[node] = [ID |-> getNbFileStackNodes(r),
                             next |-> r.fileStackNodes],
            !.fileStackNodes = node]

\* one iteration of the loop of out_RegisterNode on an unregistered node
RegisterOne(r, node) ==
  Let(getNbFileStackNodes(r), LAMBDA id :
    IF id = NoID
      THEN [r EXCEPT !.nodes[node].ID = id, !.fatal = TRUE]
      ELSE [r EXCEPT !.nodes[node] = [ID |-> id, next |-> r.fileStackNodes],
                     !.fileStackNodes = node])

RECURSIVE out_RegisterNode(_, _)
\* mutant: the loop is entered without looking at node->ID
out_RegisterNode_NoCheck(r, node) ==
  Let(RegisterOne(r, node), LAMBDA r1 :
    IF r1.fatal \/ FileStack[node].parent = 0 \/ r.nodes[node].ID # NoID
      THEN r1
      ELSE out_RegisterNode(r1, FileStack[node].parent))

\* mutant: the loop ends after the node's parent
out_RegisterNode_ParentOnly(r, node) ==
  IF r.nodes[node].ID # NoID
    THEN r
    ELSE Let(RegisterOne(r, node), LAMBDA r1 :
           IF \/ r1.fatal
              \/ FileStack[node].parent = 0
              \/ r1.nodes[FileStack[node].parent].ID # NoID
             THEN r1
             ELSE RegisterOne(r1, FileStack[node].parent))

\* mutant: the loop ends after the node itself, its parents are left alone
out_RegisterNode_NoParents(r, node) ==
  IF r.nodes[node].ID # NoID THEN r ELSE RegisterOne(r, node)

out_RegisterNode(r, node) ==
  IF r.nodes[node].ID # NoID
    THEN r
    ELSE Let(RegisterOne(r, node), LAMBDA r1 :
           IF r1.fatal \/ FileStack[node].parent = 0
             THEN r1
             ELSE out_RegisterNode(r1, FileStack[node].parent))

\* mutant: the symbol is put at the head of the list, not at its tail
registerSymbol_Prepend(r, sym) ==
  LET r2 == [r EXCEPT !.syms[sym].next = r.objectSymbols,
                      !.objectSymbols = sym]
  IN  Let(out_RegisterNode(r2, SymbolTab[sym].src), LAMBDA r3 :
        IF r3.fatal
          THEN r3
          ELSE IF r3.nbSymbols = NoID
            THEN [r3 EXCEPT !.fatal = TRUE]
            ELSE [r3 EXCEPT !.syms[sym].ID = r3.nbSymbols,
                            !.nbSymbols = Inc32(r3.nbSymbols)])

\* mutant: the node the symbol was defined in is not registered
registerSymbol_NoNode(r, sym) ==
  LET r1 == IF r.objectSymbolsTail = 0
              THEN [r EXCEPT !.objectSymbols = sym]
              ELSE [r EXCEPT !.syms[r.objectSymbolsTail].next = sym]
      r2 == [r1 EXCEPT !.objectSymbolsTail = sym]
  IN  IF r2.nbSymbols = NoID
        THEN [r2 EXCEPT !.fatal = TRUE]
        ELSE [r2 EXCEPT !.syms[sym].ID = r2.nbSymbols,
                        !.nbSymbols = Inc32(r2.nbSymbols)]

registerSymbol(r, sym) ==
  LET r1 == IF r.objectSymbolsTail = 0
              THEN [r EXCEPT !.objectSymbols = sym]
              ELSE [r EXCEPT !.syms[r.objectSymbolsTail].next = sym]
      r2 == [r1 EXCEPT !.objectSymbolsTail = sym]
  IN  Let(out_RegisterNode(r2, SymbolTab[sym].src), LAMBDA r3 :
        IF r3.fatal
          THEN r3
          ELSE IF r3.nbSymbols = NoID
            THEN [r3 EXCEPT !.fatal = TRUE]
            ELSE [r3 EXCEPT !.syms[sym].ID = r3.nbSymbols,
                            !.nbSymbols = Inc32(r3.nbSymbols)])

\* mutant: the symbol is registered again when it has an ID
getSymbolID_NoCheck(r, sym) ==
  IF ~sym_IsPC(sym) THEN registerSymbol(r, sym) ELSE r

\* the state after getSymbolID(sym); the value returned is GetSymbolIDValue
getSymbolID(r, sym) ==
  IF r.syms[sym].ID = NoID /\ ~sym_IsPC(sym) THEN registerSymbol(r, sym) ELSE r

GetSymbolIDValue(r, sym) == getSymbolID(r, sym).syms[sym].ID

(***************************************************************************)
(* writerpn.  A rewriting state is [r, out]: the registry and the bytes    *)
(* written to rpnexpr so far.                                              *)
(***************************************************************************)
\* the four writebyte calls that follow the opcode
WriteValue(value) ==
  <<U8(value), U8(Shr(value, 8)), U8(Shr(value, 16)), U8(Shr(value, 24))>>

\* offset of the first NUL byte at or after offset
RECURSIVE NulAt(_, _)
NulAt(rpn, offset) == IF rpn[offset] = 0 THEN offset ELSE NulAt(rpn, offset + 1)

\* the name read into tzSym, without its NUL
NameAt(rpn, offset) == SubSeq(rpn, offset, NulAt(rpn, offset) - 1)

\* case RPN_SYM, once the name is in tzSym: [r, out], the registry
\* afterwards and the five bytes written
\* mutant: the symbol is written by ID also when it is constant
rewriteSym_NeverInline(r, tzSym) ==
  LET sym == sym_FindSymbol(tzSym) IN
  Let(getSymbolID(r, sym), LAMBDA r1 :
    [r |-> r1, out |-> <<RPN_SYM>> \o WriteValue(r1.syms[sym].ID)])

rewriteSym(r, tzSym) ==
  LET sym == sym_FindSymbol(tzSym) IN
  IF sym_IsConstant(sym)
    THEN [r   |-> r,
          out |-> <<RPN_CONST>> \o WriteValue(sym_GetConstantValue(tzSym))]
    ELSE Let(getSymbolID(r, sym), LAMBDA r1 :
           [r |-> r1, out |-> <<RPN_SYM>> \o WriteValue(r1.syms[sym].ID)])

\* case RPN_BANK_SYM, once the name is in tzSym
\* mutant: the bank of a constant symbol is written without asking for an ID
rewriteBankSym_NoIDForConstant(r, tzSym) ==
  LET sym == sym_FindSymbol(tzSym) IN
  IF sym_IsConstant(sym)
    THEN [r   |-> r,
          out |-> <<RPN_BANK_SYM>> \o WriteValue(r.syms[sym].ID)]
    ELSE Let(getSymbolID(r, sym), LAMBDA r1 :
           [r |-> r1,
            out |-> <<RPN_BANK_SYM>> \o WriteValue(r1.syms[sym].ID)])

rewriteBankSym(r, tzSym) ==
  LET sym == sym_FindSymbol(tzSym) IN
  Let(getSymbolID(r, sym), LAMBDA r1 :
    [r |-> r1, out |-> <<RPN_BANK_SYM>> \o WriteValue(r1.syms[sym].ID)])

RECURSIVE writerpnFrom(_, _, _, _)
writerpnFrom(r, out, rpn, offset) ==
  IF offset > Len(rpn) \/ r.fatal
    THEN [r |-> r, out |-> out]
    ELSE
      LET rpndata == rpn[offset] IN
      CASE rpndata = RPN_CONST ->
             writerpnFrom(r, out \o SubSeq(rpn, offset, offset + 4), rpn,
                          offset + 5)
        [] rpndata = RPN_SYM ->
             Let(rewriteSym(r, NameAt(rpn, offset + 1)), LAMBDA w :
               writerpnFrom(w.r, out \o w.out, rpn,
                            NulAt(rpn, offset + 1) + 1))
        [] rpndata = RPN_BANK_SYM ->
             Let(rewriteBankSym(r, NameAt(rpn, offset + 1)), LAMBDA w :
               writerpnFrom(w.r, out \o w.out, rpn,
                            NulAt(rpn, offset + 1) + 1))
        [] rpndata = RPN_BANK_SECT ->
             LET nul == NulAt(rpn, offset + 1) IN
             writerpnFrom(r, out \o SubSeq(rpn, offset, nul), rpn, nul + 1)
        [] OTHER ->
             writerpnFrom(r, out \o <<rpndata>>, rpn, offset + 1)

writerpn(r, rpn) == writerpnFrom(r, <<>>, rpn, 1)


(***************************************************************************)
(* Expressions handed over by rpn.c.                                       *)
(***************************************************************************)
\* rpn.c's nRPNPatchSize: the size of the rewritten expression
RECURSIVE rpnPatchSize(_, _)
rpnPatchSize(rpn, offset) ==
  IF offset > Len(rpn) THEN 0
  ELSE CASE rpn[offset] = RPN_CONST -> 5 + rpnPatchSize(rpn, offset + 5)
         [] rpn[offset] \in {RPN_SYM, RPN_BANK_SYM} ->
              5 + rpnPatchSize(rpn, NulAt(rpn, offset + 1) + 1)
         [] rpn[offset] = RPN_BANK_SECT ->
              LET nul == NulAt(rpn, offset + 1) IN
              (nul - offset + 1) + rpnPatchSize(rpn, nul + 1)
         [] OTHER -> 1 + rpnPatchSize(rpn, offset + 1)

Known(v) == [isKnown |-> TRUE, nVal |-> v, nRPNPatchSize |-> 0,
             nRPNLength |-> 0, tRPN |-> <<>>]
Unknown(rpn) == [isKnown |-> FALSE, nVal |-> 0,
                 nRPNPatchSize |-> rpnPatchSize(rpn, 1),
                 nRPNLength |-> Len(rpn), tRPN |-> rpn]

PushSym(s)  == <<RPN_SYM>> \o SymbolTab[s].name \o <<0>>
PushBank(s) == <<RPN_BANK_SYM>> \o SymbolTab[s].name \o <<0>>

\* int32_t values of known expressions: 42, and one that is negative and has
\* four different bytes (0xFEDCBA98 as uint32_t)
KnownValues == {42, -19088744}

\* the symbolic expressions: a push of "a" (not constant) and of "c"
\* (constant), the bank of "b" (not constant) and of "c", and a longer one
\* with both pushes of the PC, a section name, a constant whose operand
\* bytes are opcodes (0x81, 0x50, 0x00, 0x80), operators and a push of "a"
LongRPN ==
  PushSym(1) \o PushBank(1) \o <<RPN_ADD>> \o <<RPN_BANK_SECT, 115, 0>>
    \o <<RPN_ADD>> \o <<RPN_CONST, 129, 80, 0, 128>> \o <<RPN_ADD>>
    \o PushSym(2) \o <<RPN_ADD>>

UnknownRPNs == {PushSym(2), PushSym(4), PushBank(3), PushBank(4), LongRPN}

Exprs == {Known(v) : v \in KnownValues} \cup {Unknown(t) : t \in UnknownRPNs}

(***************************************************************************)
(* allocpatch.  ctx is what the front end answers when asked where it is:  *)
(* [node, lineNo, section, offset] for fstk_GetFileStack(),                *)
(* lexer_GetLineNo(), sect_GetSymbolSection(), sect_GetSymbolOffset().     *)
(* mem says which malloc fails: "ok", "patch" or "rpn".                    *)
(* The result is [r, patch]; r.fatal tells that the process has ended.     *)
(***************************************************************************)
Context(node, section) ==
  [node |-> node, lineNo |-> 10 + node, section |-> section, offset |-> 2]

NoPatch == [src |-> 0, lineNo |-> 0, nOffset |-> 0, pcSection |-> 0,
            pcOffset |-> 0, type |-> 0, nRPNSize |-> 0, pRPN |-> <<>>,
            next |-> 0]

\* mutant: the bytes of the value are stored most significant first
KnownRPN_BigEndian(nVal) ==
  <<RPN_CONST, U8(Shr(U32(nVal), 24)), U8(Shr(U32(nVal), 16)),
    U8(Shr(U32(nVal), 8)), U8(U32(nVal))>>

\* the constant RPN expression of a known value
KnownRPN(nVal) ==
  <<RPN_CONST, U8(U32(nVal)), U8(Shr(U32(nVal), 8)), U8(Shr(U32(nVal), 16)),
    U8(Shr(U32(nVal), 24))>>

allocpatch(r, ctx, type, expr, ofs, mem) ==
  LET rpnSize == IF expr.isKnown THEN 5 ELSE expr.nRPNPatchSize
      node    == ctx.node
  IN
  IF mem # "ok"
    THEN [r |-> [r EXCEPT !.fatal = TRUE], patch |-> NoPatch]
    ELSE
      Let(out_RegisterNode(r, node), LAMBDA r1 :
        Let(IF expr.isKnown \/ r1.fatal
              THEN [r |-> r1, out |-> KnownRPN(expr.nVal)]
              ELSE writerpn(r1, SubSeq(expr.tRPN, 1, expr.nRPNLength)),
            LAMBDA w :
          \* assert(patch->nRPNSize == rpnSize) aborts the process
          [r |-> IF Len(w.out) # rpnSize THEN [w.r EXCEPT !.fatal = TRUE]
                 ELSE w.r,
           patch |-> [src |-> node, lineNo |-> ctx.lineNo, nOffset |-> ofs,
                      pcSection |-> ctx.section, pcOffset |-> ctx.offset,
                      type |-> type, nRPNSize |-> Len(w.out),
                      pRPN |-> w.out, next |-> 0]]))

Commit(r) ==
  /\ nodes' = r.nodes
  /\ fileStackNodes' = r.fileStackNodes
  /\ syms' = r.syms
  /\ objectSymbols' = r.objectSymbols
  /\ objectSymbolsTail' = r.objectSymbolsTail
  /\ nbSymbols' = r.nbSymbols

RegistryVars == <<nodes, fileStackNodes, syms, objectSymbols,
                  objectSymbolsTail, nbSymbols>>

(***************************************************************************)
(* The entry points of output.c called while assembling.                   *)
(***************************************************************************)
RegisterNode(node) ==
  /\ pc = "asm"
  /\ nCalls < MaxCalls
  /\ nCalls' = nCalls + 1
  /\ Commit(out_RegisterNode(Cur, node))
  /\ pc' = IF out_RegisterNode(Cur, node).fatal THEN "fatal" ELSE pc
  /\ UNCHANGED <<patches, sectPatches, asserts, assertions, ret, f,
                 pSectionList>>

\* out_CreatePatch is called inside pCurrentSection, a section that has
\* data; sect_GetSymbolSection() is that section
out_CreatePatch(node, pCurrentSection, type, expr, ofs, mem) ==
  /\ pc = "asm"
  /\ nCalls < MaxCalls
  /\ nCalls' = nCalls + 1
  /\ LET a == allocpatch(Cur, Context(node, pCurrentSection), type, expr, ofs,
                         mem)
     IN
     IF a.r.fatal
       THEN /\ Commit(a.r)
            /\ pc' = "fatal"
            /\ UNCHANGED <<patches, sectPatches>>
       ELSE /\ Commit(a.r)
            /\ patches' = Append(patches,
                 [a.patch EXCEPT !.next = sectPatches[pCurrentSection]])
            /\ sectPatches' =
                 [sectPatches EXCEPT ![pCurrentSection] = Len(patches) + 1]
            /\ pc' = pc
  /\ UNCHANGED <<asserts, assertions, ret, f, pSectionList>>

\* mutant: the assertion is linked into the list before the copy of the
\* message is looked at, and stays there when false is returned
out_CreateAssert_Linked(node, section, type, expr, message, ofs, mem) ==
  /\ pc = "asm"
  /\ nCalls < MaxCalls
  /\ nCalls' = nCalls + 1
  /\ IF mem = "assertion"
       THEN /\ ret' = "false"
            /\ UNCHANGED <<RegistryVars, patches, asserts, assertions, pc>>
       ELSE
         LET a == allocpatch(Cur, Context(node, section), type, expr, ofs,
                             IF mem \in {"patch", "rpn"} THEN mem ELSE "ok")
         IN
         IF a.r.fatal
           THEN /\ Commit(a.r)
                /\ pc' = "fatal"
                /\ UNCHANGED <<patches, asserts, assertions, ret>>
           ELSE
             /\ Commit(a.r)
             /\ patches' = Append(patches, a.patch)
             /\ pc' = pc
             /\ asserts' = Append(asserts,
                  [patch |-> Len(patches) + 1, message |-> message,
                   next |-> assertions])
             /\ assertions' = Len(asserts) + 1
             /\ ret' = IF mem = "message" THEN "false" ELSE "true"
  /\ UNCHANGED <<sectPatches, f, pSectionList>>

\* mem: "ok", or the allocation that fails: "assertion", "patch", "rpn",
\* "message"
out_CreateAssert(node, section, type, expr, message, ofs, mem) ==
  /\ pc = "asm"
  /\ nCalls < MaxCalls
  /\ nCalls' = nCalls + 1
  /\ IF mem = "assertion"
       THEN /\ ret' = "false"
            /\ UNCHANGED <<RegistryVars, patches, asserts, assertions, pc>>
       ELSE
         LET a == allocpatch(Cur, Context(node, section), type, expr, ofs,
                             IF mem \in {"patch", "rpn"} THEN mem ELSE "ok")
         IN
         IF a.r.fatal
           THEN /\ Commit(a.r)
                /\ pc' = "fatal"
                /\ UNCHANGED <<patches, asserts, assertions, ret>>
           ELSE
             /\ Commit(a.r)
             /\ patches' = Append(patches, a.patch)
             /\ pc' = pc
             /\ IF mem = "message"
                  THEN /\ ret' = "false"
                       /\ UNCHANGED <<asserts, assertions>>
                  ELSE /\ asserts' = Append(asserts,
                            [patch |-> Len(patches) + 1, message |-> message,
                             next |-> assertions])
                       /\ assertions' = Len(asserts) + 1
                       /\ ret' = "true"
  /\ UNCHANGED <<sectPatches, f, pSectionList>>

(***************************************************************************)
(* Writing.  A writer yields [bytes, fatal]: the bytes it puts into the    *)
(* file and whether it ended the process (fatalerror or a failed assert)   *)
(* after them.                                                             *)
(***************************************************************************)
fputc(i) == <<U8(i)>>
fputlong(i) == fputc(i) \o fputc(Shr(i, 8)) \o fputc(Shr(i, 16))
                 \o fputc(Shr(i, 24))
fputstring(str) == str \o <<0>>

Bytes(b) == [bytes |-> b, fatal |-> FALSE]
Fatal(b) == [bytes |-> b, fatal |-> TRUE]
\* w, then v unless w ended the process
Then(w, v) ==
  IF w.fatal THEN w ELSE [bytes |-> w.bytes \o v.bytes, fatal |-> v.fatal]

RECURSIVE countsectionsFrom(_, _)
\* mutant: the loop goes through the list without count++
countsectionsFrom_NoIncrement(sect, count) ==
  IF sect = 0 THEN count
  ELSE countsectionsFrom(SectionTab[sect].next, count)

countsectionsFrom(sect, count) ==
  IF sect = 0 THEN count
  ELSE countsectionsFrom(SectionTab[sect].next, Inc32(count))
countsections == countsectionsFrom(pSectionList, 0)

RECURSIVE countpatchesFrom(_)
countpatchesFrom(patch) ==
  IF patch = 0 THEN 0 ELSE 1 + countpatchesFrom(patches[patch].next)
countpatches(sect) == countpatchesFrom(sectPatches[sect])

RECURSIVE countassertsFrom(_)
countassertsFrom(assert) ==
  IF assert = 0 THEN 0 ELSE 1 + countassertsFrom(asserts[assert].next)
countasserts == countassertsFrom(assertions)

\* getsectid: [ID, fatal], fatal when sect is not in the section list
RECURSIVE getsectidFrom(_, _, _)
\* mutant: at the end of the list the count is returned, without fatalerror
getsectidFrom_NoFatal(sec, sect, ID) ==
  IF sec = 0 THEN [ID |-> ID, fatal |-> FALSE]
  ELSE IF sec = sect THEN [ID |-> ID, fatal |-> FALSE]
  ELSE getsectidFrom(SectionTab[sec].next, sect, Inc32(ID))

getsectidFrom(sec, sect, ID) ==
  IF sec = 0 THEN [ID |-> ID, fatal |-> TRUE]
  ELSE IF sec = sect THEN [ID |-> ID, fatal |-> FALSE]
  ELSE getsectidFrom(SectionTab[sec].next, sect, Inc32(ID))
getsectid(sect) == getsectidFrom(pSectionList, sect, 0)

getSectIDIfAny(sect) ==
  IF sect # 0 THEN getsectid(sect) ELSE [ID |-> -1, fatal |-> FALSE]

\* fputlong(getSectIDIfAny(sect), f)
putSectID(sect) ==
  IF getSectIDIfAny(sect).fatal THEN Fatal(<<>>)
  ELSE Bytes(fputlong(getSectIDIfAny(sect).ID))

writepatch(patch) ==
  IF nodes[patch.src].ID = NoID THEN Fatal(<<>>)
  ELSE Then(Bytes(fputlong(nodes[patch.src].ID) \o fputlong(patch.lineNo)
                    \o fputlong(patch.nOffset)),
       Then(putSectID(patch.pcSection),
            Bytes(fputlong(patch.pcOffset) \o fputc(patch.type)
                    \o fputlong(patch.nRPNSize)
                    \o SubSeq(patch.pRPN, 1, patch.nRPNSize))))

RECURSIVE writepatchesFrom(_)
writepatchesFrom(patch) ==
  IF patch = 0 THEN Bytes(<<>>)
  ELSE Then(writepatch(patches[patch]), writepatchesFrom(patches[patch].next))

\* mutant: the two modifier bits of the type byte are exchanged
writesection_FlagsSwapped(sect) ==
  LET S == SectionTab[sect]
      isUnion == IF S.modifier = SECTION_UNION THEN 1 ELSE 0
      isFragment == IF S.modifier = SECTION_FRAGMENT THEN 1 ELSE 0
      head == fputstring(S.name) \o fputlong(S.size)
                \o fputc(S.type + isUnion * 64 + isFragment * 128)
                \o fputlong(S.org) \o fputlong(S.bank) \o fputc(S.align)
                \o fputlong(S.alignOfs)
  IN  IF sect_HasData(S.type)
        THEN Then(Bytes(head \o SubSeq(S.data, 1, S.size)
                          \o fputlong(countpatches(sect))),
                  writepatchesFrom(sectPatches[sect]))
        ELSE Bytes(head)

writesection(sect) ==
  LET S == SectionTab[sect]
      isUnion == IF S.modifier = SECTION_UNION THEN 1 ELSE 0
      isFragment == IF S.modifier = SECTION_FRAGMENT THEN 1 ELSE 0
      head == fputstring(S.name) \o fputlong(S.size)
                \o fputc(S.type + isUnion * 128 + isFragment * 64)
                \o fputlong(S.org) \o fputlong(S.bank) \o fputc(S.align)
                \o fputlong(S.alignOfs)
  IN  IF sect_HasData(S.type)
        THEN Then(Bytes(head \o SubSeq(S.data, 1, S.size)
                          \o fputlong(countpatches(sect))),
                  writepatchesFrom(sectPatches[sect]))
        ELSE Bytes(head)

RECURSIVE writesectionsFrom(_)
writesectionsFrom(sect) ==
  IF sect = 0 THEN Bytes(<<>>)
  ELSE Then(writesection(sect), writesectionsFrom(SectionTab[sect].next))

writesymbol(sym) ==
  LET S == SymbolTab[sym] IN
  IF ~sym_IsDefined(sym)
    THEN Bytes(fputstring(S.name) \o fputc(SYMTYPE_IMPORT))
    ELSE IF nodes[S.src].ID = NoID THEN Fatal(fputstring(S.name))
    ELSE Then(Bytes(fputstring(S.name)
                      \o fputc(IF syms[sym].isExported THEN SYMTYPE_EXPORT
                               ELSE SYMTYPE_LOCAL)
                      \o fputlong(nodes[S.src].ID) \o fputlong(S.fileLine)),
         Then(putSectID(sym_GetSection(sym)), Bytes(fputlong(S.value))))

RECURSIVE writesymbolsFrom(_)
writesymbolsFrom(sym) ==
  IF sym = 0 THEN Bytes(<<>>)
  ELSE Then(writesymbol(sym), writesymbolsFrom(syms[sym].next))

writeassert(assert) ==
  Then(writepatch(patches[assert.patch]), Bytes(fputstring(assert.message)))

RECURSIVE writeassertsFrom(_)
\* mutant: the records are written oldest assertion first
writeassertsFrom_OldestFirst(assert) ==
  IF assert = 0 THEN Bytes(<<>>)
  ELSE Then(writeassertsFrom(asserts[assert].next),
            writeassert(asserts[assert]))

writeassertsFrom(assert) ==
  IF assert = 0 THEN Bytes(<<>>)
  ELSE Then(writeassert(asserts[assert]),
            writeassertsFrom(asserts[assert].next))

\* the iteration counters of a REPT node from index i - 1 down to 0
RECURSIVE putIters(_, _)
putIters(iters, i) ==
  IF i = 0 THEN <<>> ELSE fputlong(iters[i]) \o putIters(iters, i - 1)

writeFileStackNode(node) ==
  LET N == FileStack[node] IN
  fputlong(IF N.parent # 0 THEN nodes[N.parent].ID ELSE -1)
    \o fputlong(N.lineNo) \o fputc(N.type)
    \o (IF N.type # NODE_REPT THEN fputstring(N.name)
        ELSE fputlong(N.reptDepth) \o putIters(N.iters, N.reptDepth))

\* the loop of out_WriteObject over fileStackNodes
RECURSIVE writeNodesFrom(_)
writeNodesFrom(node) ==
  IF node = 0 THEN Bytes(<<>>)
  ELSE LET next == nodes[node].next IN
       Then(IF next # 0 /\ nodes[next].ID # nodes[node].ID - 1
              THEN Fatal(writeFileStackNode(node))
              ELSE Bytes(writeFileStackNode(node)),
            writeNodesFrom(next))

\* mutant: the sweep registers the symbols that are not exported too
registerExportedSymbol_All(r, symbol) ==
  IF r.syms[symbol].ID = NoID /\ ~r.fatal
    THEN registerSymbol(r, symbol)
    ELSE r

\* mutant: the sweep registers the exported symbols that have an ID again
registerExportedSymbol_Again(r, symbol) ==
  IF r.syms[symbol].isExported /\ ~r.fatal
    THEN registerSymbol(r, symbol)
    ELSE r

registerExportedSymbol(r, symbol) ==
  IF r.syms[symbol].isExported /\ r.syms[symbol].ID = NoID /\ ~r.fatal
    THEN registerSymbol(r, symbol)
    ELSE r

\* sym_ForEach(registerExportedSymbol, NULL), the symbols visited in order
RECURSIVE sym_ForEach(_, _)
sym_ForEach(r, order) ==
  IF order = <<>> THEN r
  ELSE sym_ForEach(registerExportedSymbol(r, Head(order)), Tail(order))

\* the orders in which the hash map of symbol.c may hand out the symbols
SymbolOrders ==
  {o \in [Symbols -> Symbols] : \A s \in Symbols : \E i \in Symbols : o[i] = s}

(***************************************************************************)
(* out_WriteObject, one action for each of its phases; pc is the phase to  *)
(* run next.                                                               *)
(***************************************************************************)
Emit(w, nextpc) ==
  /\ f' = f \o w.bytes
  /\ pc' = IF w.fatal THEN "fatal" ELSE nextpc
  /\ UNCHANGED <<RegistryVars, patches, sectPatches, asserts, assertions, ret,
                 nCalls, pSectionList>>

\* mutant: the header is written right after the file is opened, the sweep
\* of the exported symbols is left out
WriteObject_Open_NoSweep(opened) ==
  /\ pc = "asm"
  /\ pc' = IF opened THEN "header" ELSE "fatal"
  /\ UNCHANGED <<RegistryVars, patches, sectPatches, asserts, assertions, ret,
                 nCalls, f, pSectionList>>

\* fopen / fdopen; err() when it fails
WriteObject_Open(opened) ==
  /\ pc = "asm"
  /\ pc' = IF opened THEN "sweep" ELSE "fatal"
  /\ UNCHANGED <<RegistryVars, patches, sectPatches, asserts, assertions, ret,
                 nCalls, f, pSectionList>>

WriteObject_Sweep(order) ==
  /\ pc = "sweep"
  /\ Commit(sym_ForEach(Cur, order))
  /\ pc' = IF sym_ForEach(Cur, order).fatal THEN "fatal" ELSE "header"
  /\ UNCHANGED <<patches, sectPatches, asserts, assertions, ret, nCalls, f,
                 pSectionList>>

WriteObject_Header ==
  /\ pc = "header"
  /\ Emit(Bytes(ObjectVersionString \o fputlong(RGBDS_OBJECT_REV)), "symcount")

WriteObject_SymCount ==
  /\ pc = "symcount"
  /\ Emit(Bytes(fputlong(nbSymbols)), "sectcount")

WriteObject_SectCount ==
  /\ pc = "sectcount"
  /\ Emit(Bytes(fputlong(countsections)), "nodes")

WriteObject_Nodes ==
  /\ pc = "nodes"
  /\ Emit(Then(Bytes(fputlong(getNbFileStackNodes(Cur))),
               writeNodesFrom(fileStackNodes)), "symbols")

WriteObject_Symbols ==
  /\ pc = "symbols"
  /\ Emit(writesymbolsFrom(objectSymbols), "sections")

WriteObject_Sections ==
  /\ pc = "sections"
  /\ Emit(writesectionsFrom(pSectionList), "asserts")

WriteObject_Asserts ==
  /\ pc = "asserts"
  /\ Emit(Then(Bytes(fputlong(countasserts)), writeassertsFrom(assertions)),
          "close")

\* fclose
WriteObject_Close ==
  /\ pc = "close"
  /\ pc' = "done"
  /\ UNCHANGED <<RegistryVars, patches, sectPatches, asserts, assertions, ret,
                 nCalls, f, pSectionList>>

out_WriteObject ==
  \/ \E opened \in BOOLEAN : WriteObject_Open(opened)
  \/ \E order \in SymbolOrders : WriteObject_Sweep(order)
  \/ WriteObject_Header
  \/ WriteObject_SymCount
  \/ WriteObject_SectCount
  \/ WriteObject_Nodes
  \/ WriteObject_Symbols
  \/ WriteObject_Sections
  \/ WriteObject_Asserts
  \/ WriteObject_Close

\* the sections of the section list, from its head
RECURSIVE SectListFrom(_, _)
SectListFrom(sect, fuel) ==
  IF sect = 0 \/ fuel = 0 THEN <<>>
  ELSE <<sect>> \o SectListFrom(SectionTab[sect].next, fuel - 1)
SectList == SectListFrom(pSectionList, Len(SectionTab) + 1)
SectionsInList == {SectList[i] : i \in 1 .. Len(SectList)}

\* the sections of the module that have data
DataSections == {s \in SectionsInList : sect_HasData(SectionTab[s].type)}

\* where the front end creates patches: in the macro, the REPT and the
\* included file
PatchNodes == Nodes \ {1}
\* the assertions the front end makes: in the REPT outside of any section
\* and, when the module has sections, in the root file inside section 2
AssertContexts ==
  {c \in {<<3, 0>>, <<1, 2>>} : c[2] = 0 \/ c[2] \in SectionsInList}
AssertExprs == {Known(42), Unknown(PushSym(2))}
Messages == {<<33>>}

\* The module is either one without sections, in which nothing is
\* exported (the label "b" is not used and the PC has no section), or the
\* module of the two sections, with "b" exported and the PC exported or
\* not.
Init ==
  /\ nodes = [n \in Nodes |-> [ID |-> NoID, next |-> 0]]
  /\ fileStackNodes = 0
  /\ pSectionList \in {0, 1}
  /\ \E pcExported \in BOOLEAN :
       syms = [s \in Symbols |->
                 [ID |-> NoID, next |-> 0,
                  isExported |-> /\ pSectionList # 0
                                 /\ IF s = 1 THEN pcExported ELSE s = 3]]
  /\ objectSymbols = 0
  /\ objectSymbolsTail = 0
  /\ nbSymbols = 0
  /\ patches = <<>>
  /\ sectPatches = [s \in Sections |-> 0]
  /\ asserts = <<>>
  /\ assertions = 0
  /\ ret = "-"
  /\ nCalls = 0
  /\ pc = "asm"
  /\ f = <<>>

Next ==
  \/ \E node \in Nodes : RegisterNode(node)
  \/ \E node \in PatchNodes, sect \in DataSections, expr \in Exprs,
        mem \in {"ok", "patch", "rpn"} :
       out_CreatePatch(node, sect, PATCHTYPE_BYTE, expr, 1, mem)
  \/ \E c \in AssertContexts, expr \in AssertExprs, message \in Messages,
        mem \in {"ok", "assertion", "patch", "rpn", "message"} :
       out_CreateAssert(c[1], c[2], ASSERT_ERROR, expr, message, 0, mem)
  \/ out_WriteObject

Spec == Init /\ [][Next]_vars

(***************************************************************************)
(* The same program late in a very long assembly, when the two ID counters *)
(* are about to run out.  Of the nodes registered so far only the two most *)
(* recent are represented, the included file 4 and then its parent 1, and  *)
(* of the object symbol list only its last symbol "b"; the earlier entries *)
(* of both lists are not (the next field of node 4 stands for them).  The  *)
(* head of the node list has the ID 0xFFFFFFFC, 0xFFFFFFFD or 0xFFFFFFFE,  *)
(* nbSymbols is 0xFFFFFFFD, 0xFFFFFFFE or 0xFFFFFFFF.  The run is followed *)
(* up to the end of the sweep, the last place where IDs are given out.     *)
(***************************************************************************)
NearFullNodeIDs == {-4, -3, -2}
NearFullSymbolCounts == {-3, -2, -1}

InitExhaust ==
  /\ \E headID \in NearFullNodeIDs :
       nodes = [n \in Nodes |->
                  IF n = 1 THEN [ID |-> headID, next |-> 4]
                  ELSE IF n = 4 THEN [ID |-> headID - 1, next |-> 0]
                  ELSE [ID |-> NoID, next |-> 0]]
  /\ fileStackNodes = 1
  /\ \E pcExported \in BOOLEAN, count \in NearFullSymbolCounts :
       /\ syms = [s \in Symbols |->
                    [ID |-> IF s = 3 THEN count - 1 ELSE NoID, next |-> 0,
                     isExported |-> IF s = 1 THEN pcExported ELSE s = 3]]
       /\ nbSymbols = count
  /\ pSectionList = 1
  /\ objectSymbols = 3
  /\ objectSymbolsTail = 3
  /\ patches = <<>>
  /\ sectPatches = [s \in Sections |-> 0]
  /\ asserts = <<>>
  /\ assertions = 0
  /\ ret = "-"
  /\ nCalls = 0
  /\ pc = "asm"
  /\ f = <<>>

NextExhaust ==
  \/ \E node \in Nodes : RegisterNode(node)
  \/ \E node \in PatchNodes, sect \in DataSections, expr \in Exprs,
        mem \in {"ok", "patch", "rpn"} :
       out_CreatePatch(node, sect, PATCHTYPE_BYTE, expr, 1, mem)
  \/ \E c \in AssertContexts, expr \in AssertExprs, message \in Messages,
        mem \in {"ok", "assertion", "patch", "rpn", "message"} :
       out_CreateAssert(c[1], c[2], ASSERT_ERROR, expr, message, 0, mem)
  \/ \E opened \in BOOLEAN : WriteObject_Open(opened)
  \/ \E order \in SymbolOrders : WriteObject_Sweep(order)

SpecExhaust == InitExhaust /\ [][NextExhaust]_vars

(***************************************************************************)
(* getsectid through its two callers, writepatch and writesymbol, applied  *)
(* to any section reference under any section list: the list of the two    *)
(* sections, the list of "w" alone, the empty list.  The front end of      *)
(* rgbds links every section it creates into the list, so a reference to   *)
(* a section outside the list does not arise in Spec; here the functions   *)
(* are given such references as well.  The four nodes were registered in   *)
(* the order 1, 2, 3, 4.  One record is written, then the section table,   *)
(* the assertion table and the end of out_WriteObject follow.              *)
(***************************************************************************)
SectionLists == {0, 1, 2}
PatchLines == {1, 7}
PatchOffsets == {0, 1}

InitSectID ==
  /\ nodes = [n \in Nodes |-> [ID |-> n - 1, next |-> n - 1]]
  /\ fileStackNodes = Len(FileStack)
  /\ pSectionList \in SectionLists
  /\ \E exported \in BOOLEAN :
       syms = [s \in Symbols |->
                 [ID |-> NoID, next |-> 0, isExported |-> exported]]
  /\ objectSymbols = 0
  /\ objectSymbolsTail = 0
  /\ nbSymbols = 0
  /\ patches = <<>>
  /\ sectPatches = [s \in Sections |-> 0]
  /\ asserts = <<>>
  /\ assertions = 0
  /\ ret = "-"
  /\ nCalls = 0
  /\ pc = "asm"
  /\ f = <<>>

\* writepatch(patch, f) for a patch of a known value
ApplyWritepatch(src, lineNo, pcSection, pcOffset) ==
  /\ pc = "asm"
  /\ patches' = <<[src |-> src, lineNo |-> lineNo, nOffset |-> 0,
                   pcSection |-> pcSection, pcOffset |-> pcOffset,
                   type |-> PATCHTYPE_BYTE, nRPNSize |-> 5,
                   pRPN |-> KnownRPN(42), next |-> 0]>>
  /\ f' = f \o writepatch(patches'[1]).bytes
  /\ pc' = IF writepatch(patches'[1]).fatal THEN "fatal" ELSE "sections"
  /\ UNCHANGED <<RegistryVars, sectPatches, asserts, assertions, ret, nCalls,
                 pSectionList>>

\* writesymbol(sym, f) for a symbol just registered
ApplyWritesymbol(sym) ==
  /\ pc = "asm"
  /\ Commit(registerSymbol(Cur, sym))
  /\ f' = f \o writesymbol(sym).bytes
  /\ pc' = IF writesymbol(sym).fatal THEN "fatal" ELSE "sections"
  /\ UNCHANGED <<patches, sectPatches, asserts, assertions, ret, nCalls,
                 pSectionList>>

NextSectID ==
  \/ \E src \in Nodes, lineNo \in PatchLines, pcSection \in {0} \cup Sections,
        pcOffset \in PatchOffsets :
       ApplyWritepatch(src, lineNo, pcSection, pcOffset)
  \/ \E sym \in Symbols : ApplyWritesymbol(sym)
  \/ WriteObject_Sections
  \/ WriteObject_Asserts
  \/ WriteObject_Close

SpecSectID == InitSectID /\ [][NextSectID]_vars

(***************************************************************************)
(* Definitions used to state the properties.                               *)
(***************************************************************************)
\* the nodes of a list of at most fuel file stack nodes, from its head
RECURSIVE NodeListFrom(_, _)
NodeListFrom(node, fuel) ==
  IF node = 0 \/ fuel = 0 THEN <<>>
  ELSE <<node>> \o NodeListFrom(nodes[node].next, fuel - 1)
NodeList == NodeListFrom(fileStackNodes, Len(FileStack) + 1)

\* the symbols of the object symbol list, from its head
RECURSIVE SymListFrom(_, _)
SymListFrom(sym, fuel) ==
  IF sym = 0 \/ fuel = 0 THEN <<>>
  ELSE <<sym>> \o SymListFrom(syms[sym].next, fuel - 1)
SymList == SymListFrom(objectSymbols, Len(SymbolTab) + 1)

Range(seq) == {seq[i] : i \in 1 .. Len(seq)}
Registered == {n \in Nodes : nodes[n].ID # NoID}
WithID == {s \in Symbols : syms[s].ID # NoID}

\* the 32-bit value whose bytes, least significant first, are b[1] .. b[4]
\* (in the representation of uint32_t used here: bit 31 set is negative)
LittleEndian(b) ==
  b[1] + 256 * b[2] + 65536 * b[3]
    + 16777216 * (IF b[4] >= 128 THEN b[4] - 256 ELSE b[4])

\* a rewritten expression read as the linker reads it: its instructions,
\* [op, arg], arg the 32-bit operand of RPN_CONST, RPN_SYM and RPN_BANK_SYM
\* and the name of RPN_BANK_SECT
RECURSIVE OutOps(_)
OutOps(b) ==
  IF b = <<>> THEN <<>>
  ELSE IF b[1] \in {RPN_CONST, RPN_SYM, RPN_BANK_SYM}
    THEN <<[op |-> b[1], arg |-> LittleEndian(SubSeq(b, 2, 5))]>>
           \o OutOps(SubSeq(b, 6, Len(b)))
  ELSE IF b[1] = RPN_BANK_SECT
    THEN LET nul == CHOOSE i \in 2 .. Len(b) :
                      b[i] = 0 /\ \A j \in 2 .. i - 1 : b[j] # 0
         IN  <<[op |-> b[1], arg |-> SubSeq(b, 2, nul - 1)]>>
               \o OutOps(SubSeq(b, nul + 1, Len(b)))
  ELSE <<[op |-> b[1], arg |-> <<>>]>> \o OutOps(SubSeq(b, 2, Len(b)))

\* a symbolic expression as rpn.c writes it: its instructions, [op, arg],
\* arg the four operand bytes of RPN_CONST and the name of RPN_SYM,
\* RPN_BANK_SYM and RPN_BANK_SECT
RECURSIVE InOps(_)
InOps(b) ==
  IF b = <<>> THEN <<>>
  ELSE IF b[1] = RPN_CONST
    THEN <<[op |-> b[1], arg |-> SubSeq(b, 2, 5)]>>
           \o InOps(SubSeq(b, 6, Len(b)))
  ELSE IF b[1] \in {RPN_SYM, RPN_BANK_SYM, RPN_BANK_SECT}
    THEN LET nul == CHOOSE i \in 2 .. Len(b) :
                      b[i] = 0 /\ \A j \in 2 .. i - 1 : b[j] # 0
         IN  <<[op |-> b[1], arg |-> SubSeq(b, 2, nul - 1)]>>
               \o InOps(SubSeq(b, nul + 1, Len(b)))
  ELSE <<[op |-> b[1], arg |-> <<>>]>> \o InOps(SubSeq(b, 2, Len(b)))

\* the symbol IDs the rewritten expression of a patch refers to
RefIDs(patch) ==
  {o.arg : o \in {x \in Range(OutOps(patch.pRPN)) :
                    x.op \in {RPN_SYM, RPN_BANK_SYM}}}

\* some rewritten patch expression refers to symbol s by its ID: by the
\* position of s in the object symbol list
Referenced(s) ==
  \E p \in 1 .. Len(patches) : \E k \in RefIDs(patches[p]) :
    /\ k >= 0
    /\ k < Len(SymList)
    /\ SymList[k + 1] = s

AfterSweep == {"header", "symcount", "sectcount", "nodes", "symbols",
               "sections", "asserts", "close", "done"}

(***************************************************************************)
(* C1.  The list of file stack nodes, read from its head, carries the IDs  *)
(* count - 1, count - 2, ..., 0, count being getNbFileStackNodes(); the    *)
(* nodes with an ID are the nodes of the list, so the IDs given out are    *)
(* 0 .. count - 1, and the adjacency check of out_WriteObject does not     *)
(* fail.                                                                   *)
(***************************************************************************)
C1_NodeIDsContiguous ==
  /\ getNbFileStackNodes(Cur) = Len(NodeList)
  /\ \A i \in 1 .. Len(NodeList) : nodes[NodeList[i]].ID = Len(NodeList) - i
  /\ Range(NodeList) = Registered
  /\ {nodes[n].ID : n \in Registered} = 0 .. Len(NodeList) - 1
  /\ ~writeNodesFrom(fileStackNodes).fatal

\* the node table was written for four nodes
C1_Witness ==
  /\ pc = "done"
  /\ Len(NodeList) = 4
  /\ nodes[fileStackNodes].ID = 3

(***************************************************************************)
(* C2.  out_RegisterNode on a node that has an ID changes nothing; on a    *)
(* node without ID whose parent has one (or which has no parent) it gives  *)
(* out exactly one ID; no step changes the ID of a node that has one.      *)
(***************************************************************************)
C2_Step ==
  /\ \A n \in Registered : nodes'[n] = nodes[n]
  /\ \A node \in Nodes :
       RegisterNode(node) =>
         /\ node \in Registered =>
              /\ nodes' = nodes
              /\ fileStackNodes' = fileStackNodes
         /\ ( /\ node \notin Registered
              /\ FileStack[node].parent = 0
                   \/ FileStack[node].parent \in Registered ) =>
              /\ Registered' = Registered \cup {node}
              /\ getNbFileStackNodes(Cur') = getNbFileStackNodes(Cur) + 1
              /\ nodes'[node].ID = getNbFileStackNodes(Cur)

C2_RegisterIdempotent == [][C2_Step]_vars

\* two calls of out_RegisterNode were made and one node is registered
C2_Witness ==
  /\ nCalls = 2
  /\ pc = "asm"
  /\ patches = <<>>
  /\ ret = "-"
  /\ Cardinality(Registered) = 1

(***************************************************************************)
(* C3.  Once out_WriteObject has swept the symbols, a symbol has an ID,    *)
(* and is in the object symbol list, exactly if some rewritten patch       *)
(* expression refers to it by ID or it is exported.                        *)
(***************************************************************************)
C3_LazySymbolIDs ==
  pc \in AfterSweep =>
    \A s \in Symbols :
      /\ s \in WithID <=> s \in Range(SymList)
      /\ s \in WithID <=> (Referenced(s) \/ syms[s].isExported)

\* "a" is referenced, "b" is exported only, "c" was pushed as a constant
C3_Witness ==
  /\ pc = "done"
  /\ Referenced(2)
  /\ ~Referenced(3) /\ 3 \in WithID
  /\ 4 \notin WithID
  /\ \E p \in 1 .. Len(patches) : patches[p].pRPN[1] = RPN_CONST

(***************************************************************************)
(* C4.  The sweep registers each exported symbol that has no ID once and   *)
(* leaves the symbols that have an ID alone: no symbol is twice in the     *)
(* object symbol list, and after the sweep every exported symbol is in it  *)
(* once.                                                                   *)
(***************************************************************************)
Occurrences(seq, x) == Cardinality({i \in 1 .. Len(seq) : seq[i] = x})

C4_SweepStep ==
  pc = "sweep" /\ pc' = "header" =>
    /\ \A s \in WithID : syms'[s].ID = syms[s].ID
    /\ WithID' = WithID \cup {s \in Symbols : syms[s].isExported}
    /\ nbSymbols' = nbSymbols
         + Cardinality({s \in Symbols \ WithID : syms[s].isExported})

C4_ExportSweep ==
  /\ [](\A s \in Symbols : Occurrences(SymList, s) <= 1)
  /\ [](pc \in AfterSweep =>
          \A s \in Symbols : syms[s].isExported => Occurrences(SymList, s) = 1)
  /\ [][C4_SweepStep]_vars

\* "b" had its ID from a patch before the sweep, the PC got its from the
\* sweep
C4_Witness ==
  /\ pc = "done"
  /\ Referenced(3)
  /\ syms[3].ID = 0
  /\ syms[1].ID = 1

(***************************************************************************)
(* C5.  The object symbol list holds the symbols that have an ID, in the   *)
(* order of their IDs 0, 1, ..., nbSymbols - 1; a symbol ID in a rewritten *)
(* expression is the position in that list of the symbol it was written    *)
(* for.                                                                    *)
(***************************************************************************)
C5_ListOrder ==
  /\ Len(SymList) = nbSymbols
  /\ \A i \in 1 .. Len(SymList) : syms[SymList[i]].ID = i - 1
  /\ Range(SymList) = WithID
  /\ \A p \in 1 .. Len(patches) : \A k \in RefIDs(patches[p]) :
       k = NoID \/ (k >= 0 /\ k < nbSymbols)

\* the patch made in this step is the last one of patches'
NewPatch == patches'[Len(patches')]
\* this step allocates a patch
MakesPatch == pc = "asm" /\ Len(patches') = Len(patches) + 1

\* in the patch made from expr, the ID operands stand for the symbols named
\* at the same place of expr
C5_RefersTo(expr) ==
  Len(patches') = Len(patches) + 1 /\ ~expr.isKnown =>
    LET in  == InOps(expr.tRPN)
        out == OutOps(NewPatch.pRPN)
    IN  /\ Len(in) = Len(out)
        /\ \A i \in 1 .. Len(in) :
             out[i].op \in {RPN_SYM, RPN_BANK_SYM} /\ out[i].arg # NoID =>
               SymList'[out[i].arg + 1] = sym_FindSymbol(in[i].arg)

C5_Step ==
  MakesPatch =>
    /\ \A node \in PatchNodes, sect \in DataSections, expr \in Exprs :
         out_CreatePatch(node, sect, PATCHTYPE_BYTE, expr, 1, "ok")
           => C5_RefersTo(expr)
    /\ \A c \in AssertContexts, expr \in AssertExprs, message \in Messages,
          mem \in {"ok", "message"} :
         out_CreateAssert(c[1], c[2], ASSERT_ERROR, expr, message, 0, mem)
           => C5_RefersTo(expr)

C5_SymbolTableOrder == []C5_ListOrder /\ [][C5_Step]_vars

\* three symbols are in the list and a patch refers to the second
C5_Witness ==
  /\ nbSymbols = 3
  /\ pc = "done"
  /\ \E p \in 1 .. Len(patches) : 1 \in RefIDs(patches[p])


(***************************************************************************)
(* C6.  out_WriteObject goes through its phases in one order and never     *)
(* back: open, sweep, header, symbol count, section count, nodes, symbols, *)
(* sections, assertions, close.  The file only grows, nothing is created   *)
(* while it is written, and nothing is registered once the sweep is done:  *)
(* the symbol count and the node count in the file are the final ones.     *)
(***************************************************************************)
PhaseOrder == <<"asm", "sweep", "header", "symcount", "sectcount", "nodes",
                "symbols", "sections", "asserts", "close", "done">>

\* the phases that write, and the least number of bytes each adds
Writes == [header |-> 8, symcount |-> 4, sectcount |-> 4, nodes |-> 4,
           symbols |-> 0, sections |-> 0, asserts |-> 4]

C6_Step ==
  /\ pc' # pc =>
       \/ pc' = "fatal"
       \/ \E i \in 1 .. Len(PhaseOrder) - 1 :
            pc = PhaseOrder[i] /\ pc' = PhaseOrder[i + 1]
  /\ pc # "asm" => pc' # pc
  /\ Len(f') >= Len(f) /\ SubSeq(f', 1, Len(f)) = f
  /\ pc \in DOMAIN Writes /\ pc' # "fatal" => Len(f') >= Len(f) + Writes[pc]
  /\ pc \notin DOMAIN Writes => f' = f
  /\ pc # "asm" =>
       UNCHANGED <<patches, sectPatches, asserts, assertions, ret, nCalls>>
  /\ pc \notin {"asm", "sweep"} => UNCHANGED RegistryVars

C6_Layout ==
  /\ Len(f) >= 8 =>
       /\ SubSeq(f, 1, 4) = <<82, 71, 66, 57>>
       /\ LittleEndian(SubSeq(f, 5, 8)) = 6
       /\ \A s \in Symbols : syms[s].isExported => s \in WithID
  /\ Len(f) >= 12 => LittleEndian(SubSeq(f, 9, 12)) = Cardinality(WithID)
  /\ Len(f) >= 16 => LittleEndian(SubSeq(f, 13, 16)) = Len(SectList)
  /\ Len(f) >= 20 => LittleEndian(SubSeq(f, 17, 20)) = Cardinality(Registered)
  /\ pc \in {"asm", "sweep", "header"} => f = <<>>
  /\ pc = "symcount" => Len(f) = 8
  /\ pc = "sectcount" => Len(f) = 12
  /\ pc = "nodes" => Len(f) = 16

C6_PhaseOrder == [][C6_Step]_vars /\ []C6_Layout

\* a file was written whose sweep registered the exported "b", with a patch
\* in a section and an assertion
C6_Witness ==
  /\ pc = "done"
  /\ sectPatches[1] # 0
  /\ assertions # 0
  /\ ~Referenced(3)

(***************************************************************************)
(* C7.  A patch made from an expression of known value V has a payload of  *)
(* 5 bytes: RPN_CONST, then the four bytes of V, least significant first;  *)
(* making it gives no ID to any symbol.                                    *)
(***************************************************************************)
C7_Known(expr) ==
  Len(patches') = Len(patches) + 1 /\ expr.isKnown =>
    /\ NewPatch.nRPNSize = 5
    /\ Len(NewPatch.pRPN) = 5
    /\ NewPatch.pRPN[1] = RPN_CONST
    /\ \A i \in 2 .. 5 : NewPatch.pRPN[i] \in 0 .. 255
    /\ LittleEndian(SubSeq(NewPatch.pRPN, 2, 5)) = expr.nVal
    /\ UNCHANGED <<syms, objectSymbols, objectSymbolsTail, nbSymbols>>

C7_Step ==
  MakesPatch =>
    /\ \A node \in PatchNodes, sect \in DataSections, expr \in Exprs :
         out_CreatePatch(node, sect, PATCHTYPE_BYTE, expr, 1, "ok")
           => C7_Known(expr)
    /\ \A c \in AssertContexts, expr \in AssertExprs, message \in Messages,
          mem \in {"ok", "message"} :
         out_CreateAssert(c[1], c[2], ASSERT_ERROR, expr, message, 0, mem)
           => C7_Known(expr)

C7_KnownValuePatch == [][C7_Step]_vars

\* a patch of the known value 0xFEDCBA98 and one of 42
C7_Witness ==
  /\ \E p \in 1 .. Len(patches) : patches[p].pRPN = <<128, 152, 186, 220, 254>>
  /\ \E p \in 1 .. Len(patches) : patches[p].pRPN = <<128, 42, 0, 0, 0>>

(***************************************************************************)
(* C8.  writerpn on RPN_SYM.  A symbol that is constant is written as      *)
(* RPN_CONST and its value, and gets no ID from that; a symbol that is not *)
(* constant is written as RPN_SYM and its ID, which it is given if it had  *)
(* none.  As claimed, this covers every symbol; as amended, the PC is      *)
(* written with the ID field NoID and is given no ID.                      *)
(***************************************************************************)
\* expr has an RPN_BANK_SYM of the symbol named name
HasBankOf(expr, name) ==
  \E o \in Range(InOps(expr.tRPN)) : o.op = RPN_BANK_SYM /\ o.arg = name

C8_Push(expr, pcToo) ==
  Len(patches') = Len(patches) + 1 /\ ~expr.isKnown =>
    LET in  == InOps(expr.tRPN)
        out == OutOps(NewPatch.pRPN)
    IN  /\ Len(in) = Len(out)
        /\ \A i \in 1 .. Len(in) : in[i].op = RPN_SYM =>
             LET s == sym_FindSymbol(in[i].arg) IN
             IF sym_IsConstant(s)
               THEN /\ out[i] = [op |-> RPN_CONST, arg |-> SymbolTab[s].value]
                    /\ ~HasBankOf(expr, in[i].arg) => syms'[s].ID = syms[s].ID
               ELSE /\ out[i] = [op |-> RPN_SYM, arg |-> syms'[s].ID]
                    /\ s \in WithID => syms'[s].ID = syms[s].ID
                    /\ IF sym_IsPC(s) /\ ~pcToo
                         THEN syms'[s].ID = syms[s].ID
                         ELSE /\ s \in WithID'
                              /\ s \notin WithID =>
                                   /\ nbSymbols' > nbSymbols
                                   /\ syms'[s].ID >= nbSymbols
                                   /\ syms'[s].ID < nbSymbols'

C8_Step(pcToo) ==
  MakesPatch =>
    /\ \A node \in PatchNodes, sect \in DataSections, expr \in Exprs :
         out_CreatePatch(node, sect, PATCHTYPE_BYTE, expr, 1, "ok")
           => C8_Push(expr, pcToo)
    /\ \A c \in AssertContexts, expr \in AssertExprs, message \in Messages,
          mem \in {"ok", "message"} :
         out_CreateAssert(c[1], c[2], ASSERT_ERROR, expr, message, 0, mem)
           => C8_Push(expr, pcToo)

\* the claim as made: every symbol that is not constant is given an ID
C8_PushSymbolAsClaimed == [][C8_Step(TRUE)]_vars

\* the claim as amended: every symbol but the PC
C8_PushSymbol == [][C8_Step(FALSE)]_vars

\* "c" was inlined as the constant 0xFFFFFFFE and has no ID; "a" was written
\* as RPN_SYM with the ID 0 it was given
C8_Witness ==
  /\ \E p \in 1 .. Len(patches) : patches[p].pRPN = <<128, 254, 255, 255, 255>>
  /\ \E p \in 1 .. Len(patches) : patches[p].pRPN = <<129, 0, 0, 0, 0>>
  /\ syms[4].ID = NoID
  /\ syms[2].ID = 0

(***************************************************************************)
(* C9.  writerpn on RPN_BANK_SYM.  The symbol, constant or not, is written *)
(* as RPN_BANK_SYM and its ID, which it is given if it had none, together  *)
(* with a place in the object symbol list.  As claimed, this covers every  *)
(* symbol; as amended, the PC is written with the ID field NoID and is     *)
(* given no ID.                                                            *)
(***************************************************************************)
C9_Bank(expr, pcToo) ==
  Len(patches') = Len(patches) + 1 /\ ~expr.isKnown =>
    LET in  == InOps(expr.tRPN)
        out == OutOps(NewPatch.pRPN)
    IN  /\ Len(in) = Len(out)
        /\ \A i \in 1 .. Len(in) : in[i].op = RPN_BANK_SYM =>
             LET s == sym_FindSymbol(in[i].arg) IN
             /\ out[i] = [op |-> RPN_BANK_SYM, arg |-> syms'[s].ID]
             /\ s \in WithID => syms'[s].ID = syms[s].ID
             /\ IF sym_IsPC(s) /\ ~pcToo
                  THEN /\ syms'[s].ID = syms[s].ID
                       /\ s \in Range(SymList') <=> s \in Range(SymList)
                  ELSE /\ s \in WithID'
                       /\ s \in Range(SymList')
                       /\ s \notin WithID =>
                            /\ nbSymbols' > nbSymbols
                            /\ syms'[s].ID >= nbSymbols
                            /\ syms'[s].ID < nbSymbols'

C9_Step(pcToo) ==
  MakesPatch =>
    /\ \A node \in PatchNodes, sect \in DataSections, expr \in Exprs :
         out_CreatePatch(node, sect, PATCHTYPE_BYTE, expr, 1, "ok")
           => C9_Bank(expr, pcToo)
    /\ \A c \in AssertContexts, expr \in AssertExprs, message \in Messages,
          mem \in {"ok", "message"} :
         out_CreateAssert(c[1], c[2], ASSERT_ERROR, expr, message, 0, mem)
           => C9_Bank(expr, pcToo)

\* the claim as made: every symbol is given an ID
C9_BankSymbolAsClaimed == [][C9_Step(TRUE)]_vars

\* the claim as amended: every symbol but the PC
C9_BankSymbol == [][C9_Step(FALSE)]_vars

\* the bank of the constant "c" was written as RPN_BANK_SYM with ID 1, and
\* "c" is the second symbol of the list
C9_Witness ==
  /\ \E p \in 1 .. Len(patches) : patches[p].pRPN = <<80, 1, 0, 0, 0>>
  /\ syms[4].ID = 1
  /\ Len(SymList) = 2
  /\ SymList[2] = 4

(***************************************************************************)
(* C10.  Rewriting the expression of a patch once more, right after the    *)
(* patch was made, writes the same bytes and registers nothing.            *)
(***************************************************************************)
C10_Again(expr) ==
  Len(patches') = Len(patches) + 1 /\ ~expr.isKnown =>
    LET again == writerpn(Cur', SubSeq(expr.tRPN, 1, expr.nRPNLength)) IN
    /\ again.out = NewPatch.pRPN
    /\ again.r = Cur'

C10_Step ==
  MakesPatch =>
    /\ \A node \in PatchNodes, sect \in DataSections, expr \in Exprs :
         out_CreatePatch(node, sect, PATCHTYPE_BYTE, expr, 1, "ok")
           => C10_Again(expr)
    /\ \A c \in AssertContexts, expr \in AssertExprs, message \in Messages,
          mem \in {"ok", "message"} :
         out_CreateAssert(c[1], c[2], ASSERT_ERROR, expr, message, 0, mem)
           => C10_Again(expr)

C10_RewritingDeterministic == [][C10_Step]_vars

\* two patches were made from the long expression: the first gave "a" its
\* ID, the second found it
C10_Witness ==
  /\ Len(patches) = 2
  /\ patches[1].pRPN = patches[2].pRPN
  /\ Len(patches[1].pRPN) = 27
  /\ nbSymbols = 1
  /\ syms[2].ID = 0

(***************************************************************************)
(* C11.  Neither allocator gives out the value -1 (all ones) as an ID: a   *)
(* node is in the node list exactly if its ID is not -1, every new ID is   *)
(* the count before it or a few above, without wrapping, and a             *)
(* registration attempted when the next ID would be -1 ends the process,   *)
(* the node left without ID and outside the list.  Stated for the program  *)
(* with its counters close to their end (SpecExhaust).                     *)
(***************************************************************************)
C11_NoSentinel ==
  /\ \A n \in Nodes : n \in Range(NodeList) <=> nodes[n].ID # NoID
  /\ \A m, n \in Registered : nodes[m].ID = nodes[n].ID => m = n
  /\ \A s \in WithID : s \in Range(SymList)
  /\ \A s, t \in WithID : syms[s].ID = syms[t].ID => s = t

C11_Step ==
  /\ \A n \in Registered : nodes'[n] = nodes[n]
  /\ \A n \in Registered' \ Registered :
       /\ getNbFileStackNodes(Cur) # NoID
       /\ nodes'[n].ID - getNbFileStackNodes(Cur) \in 0 .. Len(FileStack) - 1
       /\ nodes'[n].ID < 0
  /\ \A node \in Nodes \ Registered :
       RegisterNode(node) /\ getNbFileStackNodes(Cur) = NoID =>
         /\ pc' = "fatal"
         /\ nodes'[node].ID = NoID
         /\ node \notin Range(NodeList')
         /\ fileStackNodes' = fileStackNodes
  /\ \A node \in Nodes : RegisterNode(node) /\ pc' # "fatal" =>
       node \in Registered'
  /\ \A s \in WithID : syms'[s].ID = syms[s].ID
  /\ \A s \in WithID' \ WithID :
       /\ nbSymbols # NoID
       /\ syms'[s].ID - nbSymbols \in 0 .. Len(SymbolTab) - 1
       /\ syms'[s].ID < 0
  /\ nbSymbols' - nbSymbols = Cardinality(WithID' \ WithID)
  /\ ( /\ pc = "sweep"
       /\ nbSymbols = NoID
       /\ \E s \in Symbols \ WithID : syms[s].isExported ) => pc' = "fatal"

C11_IDSpaceExhaustion == []C11_NoSentinel /\ [][C11_Step]_vars

\* the REPT node got the last ID, 0xFFFFFFFE, and the registration of its
\* parent, the macro, ended the process
C11_Witness ==
  /\ pc = "fatal"
  /\ nodes[3].ID = -2
  /\ nodes[2].ID = NoID
  /\ 2 \notin Range(NodeList)
  /\ fileStackNodes = 3

(***************************************************************************)
(* C12.  out_CreateAssert returns false, and leaves the assertion list as  *)
(* it is, when the assertion cannot be allocated or the message cannot be  *)
(* copied; it returns true only with the new assertion at the head of the  *)
(* list.  As claimed, a failure to allocate the patch is reported in the   *)
(* same way; as amended, that failure ends the process inside allocpatch.  *)
(***************************************************************************)
\* this step is a call of out_CreateAssert in which allocation mem fails
\* ("ok": none)
C12_Call(mem) ==
  \E c \in AssertContexts, expr \in AssertExprs, message \in Messages :
    out_CreateAssert(c[1], c[2], ASSERT_ERROR, expr, message, 0, mem)

\* false is returned, the process goes on, and out_WriteObject would count
\* and write the assertions it would have written before
C12_ReportedFalse ==
  /\ ret' = "false"
  /\ pc' = "asm"
  /\ assertions' = assertions
  /\ asserts' = asserts
  /\ countasserts' = countasserts
  /\ writeassertsFrom(assertions)' = writeassertsFrom(assertions)

C12_StepAsClaimed ==
  pc = "asm" /\ nCalls' = nCalls + 1 =>
    \A mem \in {"assertion", "patch", "rpn", "message"} :
      C12_Call(mem) => C12_ReportedFalse

C12_Step ==
  pc = "asm" /\ nCalls' = nCalls + 1 =>
    /\ \A mem \in {"assertion", "message"} :
         C12_Call(mem) => C12_ReportedFalse
    /\ \A mem \in {"patch", "rpn"} :
         C12_Call(mem) =>
           /\ pc' = "fatal"
           /\ ret' = ret
           /\ assertions' = assertions
           /\ asserts' = asserts
    /\ C12_Call("ok") =>
         /\ ret' = "true"
         /\ assertions' = Len(asserts')
         /\ Len(asserts') = Len(asserts) + 1
         /\ asserts'[assertions'].next = assertions
         /\ asserts'[assertions'].patch = Len(patches')
         /\ countasserts' = countasserts + 1
    /\ ret' = "true" /\ ret' # ret => assertions' # assertions

\* the claim as made: every failure is reported by returning false
C12_AssertFailureAsClaimed == [][C12_StepAsClaimed]_vars

\* the claim as amended: the failures of the assertion and of the message
\* are reported, the failures inside allocpatch end the process
C12_AssertFailure == [][C12_Step]_vars

\* a first out_CreateAssert failed on the message after its patch was
\* allocated, a second one succeeded: one assertion, of the second patch
C12_Witness ==
  /\ ret = "true"
  /\ Len(patches) = 2
  /\ sectPatches = [s \in Sections |-> 0]
  /\ Len(asserts) = 1
  /\ asserts[1].patch = 2
  /\ assertions = 1

(***************************************************************************)
(* A reader of the object file, following the layout of the format: the    *)
(* header, the counts of symbols and sections, the node table with its     *)
(* count, the symbol records, the section records with their patches, the  *)
(* assertion table with its count.  b is the file, i the position of the   *)
(* next byte (from 1); a reader yields what it read and the position after *)
(* it (end).                                                               *)
(***************************************************************************)
RdLong(b, i) == LittleEndian(SubSeq(b, i, i + 3))
RdString(b, i) == [str |-> SubSeq(b, i, NulAt(b, i) - 1),
                   end |-> NulAt(b, i) + 1]
RdLongs(b, i, n) == [k \in 1 .. n |-> RdLong(b, i + 4 * (k - 1))]

RdNode(b, i) ==
  IF b[i + 8] # NODE_REPT
    THEN [parentID |-> RdLong(b, i), lineNo |-> RdLong(b, i + 4),
          type |-> b[i + 8], name |-> RdString(b, i + 9).str,
          iters |-> <<>>, end |-> RdString(b, i + 9).end]
    ELSE [parentID |-> RdLong(b, i), lineNo |-> RdLong(b, i + 4),
          type |-> b[i + 8], name |-> <<>>,
          iters |-> RdLongs(b, i + 13, RdLong(b, i + 9)),
          end |-> i + 13 + 4 * RdLong(b, i + 9)]

RECURSIVE RdNodes(_, _, _)
RdNodes(b, i, n) ==
  IF n = 0 THEN [recs |-> <<>>, end |-> i]
  ELSE LET r == RdNode(b, i)
           rest == RdNodes(b, r.end, n - 1)
       IN  [recs |-> <<r>> \o rest.recs, end |-> rest.end]

RdSymbol(b, i) ==
  LET nm == RdString(b, i) IN
  IF b[nm.end] = SYMTYPE_IMPORT
    THEN [name |-> nm.str, type |-> b[nm.end], srcID |-> NoID, lineNo |-> 0,
          sectID |-> NoID, value |-> 0, end |-> nm.end + 1]
    ELSE [name |-> nm.str, type |-> b[nm.end],
          srcID |-> RdLong(b, nm.end + 1), lineNo |-> RdLong(b, nm.end + 5),
          sectID |-> RdLong(b, nm.end + 9), value |-> RdLong(b, nm.end + 13),
          end |-> nm.end + 17]

RECURSIVE RdSymbols(_, _, _)
RdSymbols(b, i, n) ==
  IF n = 0 THEN [recs |-> <<>>, end |-> i]
  ELSE LET r == RdSymbol(b, i)
           rest == RdSymbols(b, r.end, n - 1)
       IN  [recs |-> <<r>> \o rest.recs, end |-> rest.end]

RdPatch(b, i) ==
  [srcID |-> RdLong(b, i), lineNo |-> RdLong(b, i + 4),
   offset |-> RdLong(b, i + 8), pcSectID |-> RdLong(b, i + 12),
   pcOffset |-> RdLong(b, i + 16), type |-> b[i + 20],
   rpnSize |-> RdLong(b, i + 21),
   rpn |-> SubSeq(b, i + 25, i + 24 + RdLong(b, i + 21)),
   end |-> i + 25 + RdLong(b, i + 21)]

RECURSIVE RdPatches(_, _, _)
RdPatches(b, i, n) ==
  IF n = 0 THEN [recs |-> <<>>, end |-> i]
  ELSE LET r == RdPatch(b, i)
           rest == RdPatches(b, r.end, n - 1)
       IN  [recs |-> <<r>> \o rest.recs, end |-> rest.end]

RdSection(b, i) ==
  LET nm == RdString(b, i)
      size == RdLong(b, nm.end)
      byte == b[nm.end + 4]
      head == [name |-> nm.str, size |-> size, type |-> byte % 64,
               isUnion |-> byte \div 128 = 1,
               isFragment |-> (byte \div 64) % 2 = 1,
               org |-> RdLong(b, nm.end + 5), bank |-> RdLong(b, nm.end + 9),
               align |-> b[nm.end + 13], alignOfs |-> RdLong(b, nm.end + 14)]
      at == nm.end + 18
  IN  IF sect_HasData(byte % 64)
        THEN LET ps == RdPatches(b, at + size + 4, RdLong(b, at + size)) IN
             [head |-> head, hasData |-> TRUE,
              data |-> SubSeq(b, at, at + size - 1),
              nbPatches |-> RdLong(b, at + size), patches |-> ps.recs,
              end |-> ps.end]
        ELSE [head |-> head, hasData |-> FALSE, data |-> <<>>,
              nbPatches |-> 0, patches |-> <<>>, end |-> at]

RECURSIVE RdSections(_, _, _)
RdSections(b, i, n) ==
  IF n = 0 THEN [recs |-> <<>>, end |-> i]
  ELSE LET r == RdSection(b, i)
           rest == RdSections(b, r.end, n - 1)
       IN  [recs |-> <<r>> \o rest.recs, end |-> rest.end]

RdAssert(b, i) ==
  LET p == RdPatch(b, i) IN
  [patch |-> p, message |-> RdString(b, p.end).str,
   end |-> RdString(b, p.end).end]

RECURSIVE RdAsserts(_, _, _)
RdAsserts(b, i, n) ==
  IF n = 0 THEN [recs |-> <<>>, end |-> i]
  ELSE LET r == RdAssert(b, i)
           rest == RdAsserts(b, r.end, n - 1)
       IN  [recs |-> <<r>> \o rest.recs, end |-> rest.end]

RdObject(b) ==
  LET nbSym  == RdLong(b, 9)
      nbSect == RdLong(b, 13)
      nbNode == RdLong(b, 17)
      ns == RdNodes(b, 21, nbNode)
      ys == RdSymbols(b, ns.end, nbSym)
      ss == RdSections(b, ys.end, nbSect)
      nbAssert == RdLong(b, ss.end)
      as == RdAsserts(b, ss.end + 4, nbAssert)
  IN  [tag |-> SubSeq(b, 1, 4), rev |-> RdLong(b, 5),
       nbSymbols |-> nbSym, nbSections |-> nbSect, nbNodes |-> nbNode,
       nodes |-> ns.recs, symbols |-> ys.recs, sections |-> ss.recs,
       nbAsserts |-> nbAssert, asserts |-> as.recs, end |-> as.end]

\* record rec of the file is patch p of the module
IsPatchRecord(rec, p) ==
  /\ rec.srcID = nodes[p.src].ID
  /\ rec.lineNo = p.lineNo
  /\ rec.offset = p.nOffset
  /\ IF p.pcSection = 0 THEN rec.pcSectID = NoID
       ELSE /\ rec.pcSectID \in 0 .. Len(SectList) - 1
            /\ SectList[rec.pcSectID + 1] = p.pcSection
  /\ rec.pcOffset = p.pcOffset
  /\ rec.type = p.type
  /\ rec.rpnSize = Len(p.pRPN)
  /\ rec.rpn = p.pRPN

(***************************************************************************)
(* C13.  The assertion table of the file: its count is the number of       *)
(* out_CreateAssert calls that returned true, and its records are those    *)
(* assertions, the one created last first, each the record of its patch    *)
(* and then its message.  (asserts holds the assertions in the order of    *)
(* their creation; it grows exactly in the calls that return true.)        *)
(***************************************************************************)
C13_Table ==
  pc = "done" =>
    LET o == RdObject(f)
        n == Len(asserts)
    IN  /\ o.nbAsserts = n
        /\ Len(o.asserts) = n
        /\ o.end = Len(f) + 1
        /\ \A i \in 1 .. n :
             /\ IsPatchRecord(o.asserts[i].patch,
                              patches[asserts[n + 1 - i].patch])
             /\ o.asserts[i].message = asserts[n + 1 - i].message

C13_Step ==
  /\ Len(asserts') # Len(asserts) =>
       /\ C12_Call("ok")
       /\ ret' = "true"
       /\ asserts' = Append(asserts, asserts'[Len(asserts')])
  /\ pc = "asm" /\ nCalls' = nCalls + 1 /\ C12_Call("ok") =>
       Len(asserts') = Len(asserts) + 1

C13_AssertionOrder == []C13_Table /\ [][C13_Step]_vars

\* two assertions were made, the first in the REPT (line 13) with a known
\* condition, the second in the root file (line 11) with a symbolic one;
\* the file has the second first
C13_Witness ==
  /\ pc = "done"
  /\ Len(asserts) = 2
  /\ patches[asserts[1].patch].lineNo = 13
  /\ patches[asserts[2].patch].lineNo = 11
  /\ RdObject(f).asserts[1].patch.lineNo = 11
  /\ RdObject(f).asserts[1].patch.rpn = <<129, 0, 0, 0, 0>>
  /\ RdObject(f).asserts[2].patch.rpn = <<128, 42, 0, 0, 0>>

(***************************************************************************)
(* C14.  out_RegisterNode on a node without ID gives IDs to the node and   *)
(* to its ancestors up to the first one that has an ID, or up to the root: *)
(* to k + 1 nodes the next k + 1 IDs, the node the lowest, each ancestor   *)
(* one more than its child.  A file written for one patch made in a node   *)
(* nested in another, both without ID until then and nothing else          *)
(* registered, has two node records, and the parent ID field of the inner  *)
(* node's record is the ID of the outer node.                              *)
(***************************************************************************)
\* node and its ancestors up to, not including, the first that has an ID
RECURSIVE UnregisteredChain(_)
UnregisteredChain(node) ==
  IF node = 0 THEN <<>>
  ELSE IF nodes[node].ID # NoID THEN <<>>
  ELSE <<node>> \o UnregisteredChain(FileStack[node].parent)

\* the nodes of chain got the IDs from count on, in the order of chain
C14_ChainIDs(chain, count) ==
  \A j \in 1 .. Len(chain) : nodes'[chain[j]].ID = count + j - 1

C14_Step ==
  /\ \A node \in Nodes \ Registered :
       RegisterNode(node) =>
         /\ C14_ChainIDs(UnregisteredChain(node), getNbFileStackNodes(Cur))
         /\ Registered' = Registered \cup Range(UnregisteredChain(node))
         /\ getNbFileStackNodes(Cur') =
              getNbFileStackNodes(Cur) + Len(UnregisteredChain(node))
  /\ MakesPatch =>
       \A node \in Nodes \ Registered :
         NewPatch.src = node =>
           /\ C14_ChainIDs(UnregisteredChain(node), getNbFileStackNodes(Cur))
           /\ Range(UnregisteredChain(node)) \subseteq Registered'

\* the file of a module whose only call was one out_CreatePatch, in a node
\* that has a parent, with two nodes registered in the end
C14_NestedPair ==
  ( /\ pc = "done"
    /\ nCalls = 1
    /\ Len(patches) = 1
    /\ sectPatches[1] = 1
    /\ FileStack[patches[1].src].parent # 0
    /\ Cardinality(Registered) = 2 ) =>
    LET o == RdObject(f)
        inner == patches[1].src
        outer == FileStack[inner].parent
    IN  /\ o.nbNodes = 2
        /\ Len(o.nodes) = 2
        /\ nodes[inner].ID = 0
        /\ nodes[outer].ID = 1
        \* the record of ID k is the (count - k)-th of the table
        /\ o.nodes[2].parentID = nodes[outer].ID
        /\ o.nodes[2].lineNo = FileStack[inner].lineNo
        /\ o.nodes[2].name = FileStack[inner].name
        /\ o.nodes[1].lineNo = FileStack[outer].lineNo
        /\ o.nodes[1].name = FileStack[outer].name
        /\ o.sections[1].patches[1].srcID = 0

C14_ChainRegistration == [][C14_Step]_vars /\ []C14_NestedPair

\* one patch in the included file 4, of a known value: the file has the
\* records of the root file, ID 1, and of file 4, ID 0 and parent ID 1
C14_Witness ==
  /\ pc = "done"
  /\ nCalls = 1
  /\ Len(patches) = 1
  /\ patches[1].src = 4
  /\ Registered = {1, 4}
  /\ RdObject(f).nbNodes = 2
  /\ RdObject(f).nodes[2].parentID = 1
  /\ RdObject(f).nodes[1].parentID = NoID

(***************************************************************************)
(* C15.  Round trip.  The finished file, read back by the reader above,    *)
(* has the counts, names, section bytes, patches and IDs of the module:    *)
(* the node records are the registered nodes, the symbol records the       *)
(* object symbol list, the section records the section list with the       *)
(* patches of each section, the assertion records the assertion list; a    *)
(* node, symbol or section ID is the place of its record in its table.     *)
(***************************************************************************)
\* the patches of a list of at most fuel patches, from its head
RECURSIVE PatchListFrom(_, _)
PatchListFrom(patch, fuel) ==
  IF patch = 0 \/ fuel = 0 THEN <<>>
  ELSE <<patch>> \o PatchListFrom(patches[patch].next, fuel - 1)
PatchList(sect) == PatchListFrom(sectPatches[sect], Len(patches) + 1)

\* the assertions of the assertion list, from its head
RECURSIVE AssertListFrom(_, _)
AssertListFrom(assert, fuel) ==
  IF assert = 0 \/ fuel = 0 THEN <<>>
  ELSE <<assert>> \o AssertListFrom(asserts[assert].next, fuel - 1)
AssertList == AssertListFrom(assertions, Len(asserts) + 1)

\* ID read in the file is the ID of section sect (0: no section)
IsSectID(ID, sect) ==
  IF sect = 0 THEN ID = NoID
  ELSE ID \in 0 .. Len(SectList) - 1 /\ SectList[ID + 1] = sect

IsNodeRecord(rec, n) ==
  /\ rec.parentID = IF FileStack[n].parent = 0 THEN NoID
                     ELSE nodes[FileStack[n].parent].ID
  /\ rec.lineNo = FileStack[n].lineNo
  /\ rec.type = FileStack[n].type
  /\ IF FileStack[n].type = NODE_REPT
       THEN /\ Len(rec.iters) = FileStack[n].reptDepth
            /\ \A k \in 1 .. Len(rec.iters) :
                 rec.iters[k] = FileStack[n].iters[Len(rec.iters) + 1 - k]
       ELSE rec.name = FileStack[n].name

IsSymbolRecord(rec, y) ==
  /\ rec.name = SymbolTab[y].name
  /\ IF ~SymbolTab[y].isDefined THEN rec.type = SYMTYPE_IMPORT
     ELSE /\ rec.type = IF syms[y].isExported THEN SYMTYPE_EXPORT
                        ELSE SYMTYPE_LOCAL
          /\ rec.srcID = nodes[SymbolTab[y].src].ID
          /\ rec.lineNo = SymbolTab[y].fileLine
          /\ IsSectID(rec.sectID, SymbolTab[y].section)
          /\ rec.value = SymbolTab[y].value

IsSectionRecord(rec, x) ==
  /\ rec.head.name = SectionTab[x].name
  /\ rec.head.size = SectionTab[x].size
  /\ rec.head.type = SectionTab[x].type
  /\ rec.head.isUnion <=> SectionTab[x].modifier = SECTION_UNION
  /\ rec.head.isFragment <=> SectionTab[x].modifier = SECTION_FRAGMENT
  /\ rec.head.org = SectionTab[x].org
  /\ rec.head.bank = SectionTab[x].bank
  /\ rec.head.align = SectionTab[x].align
  /\ rec.head.alignOfs = SectionTab[x].alignOfs
  /\ rec.hasData <=> sect_HasData(SectionTab[x].type)
  /\ rec.hasData =>
       /\ rec.data = SectionTab[x].data
       /\ rec.nbPatches = Len(PatchList(x))
       /\ Len(rec.patches) = Len(PatchList(x))
       /\ \A k \in 1 .. Len(rec.patches) :
            IsPatchRecord(rec.patches[k], patches[PatchList(x)[k]])

\* the symbol IDs in the payload of a patch record are places of the
\* symbol table of the file, and the symbol there is the one that has
\* this ID in memory
SymbolRefsResolve(o, rec) ==
  \A k \in {x.arg : x \in {x \in Range(OutOps(rec.rpn)) :
                              x.op \in {RPN_SYM, RPN_BANK_SYM}}} :
    k # NoID =>
      /\ k \in 0 .. o.nbSymbols - 1
      /\ \E y \in WithID : syms[y].ID = k
                             /\ o.symbols[k + 1].name = SymbolTab[y].name

C15_RoundTrip ==
  pc = "done" =>
    LET o == RdObject(f) IN
    /\ o.tag = ObjectVersionString
    /\ o.rev = RGBDS_OBJECT_REV
    /\ o.end = Len(f) + 1
    /\ o.nbNodes = Len(NodeList)
    /\ Len(o.nodes) = Len(NodeList)
    /\ \A i \in 1 .. Len(o.nodes) : IsNodeRecord(o.nodes[i], NodeList[i])
    /\ \A n \in Registered :
         IsNodeRecord(o.nodes[o.nbNodes - nodes[n].ID], n)
    /\ o.nbSymbols = Len(SymList)
    /\ Len(o.symbols) = Len(SymList)
    /\ \A i \in 1 .. Len(o.symbols) : IsSymbolRecord(o.symbols[i], SymList[i])
    /\ \A y \in WithID : IsSymbolRecord(o.symbols[syms[y].ID + 1], y)
    /\ o.nbSections = Len(SectList)
    /\ Len(o.sections) = Len(SectList)
    /\ \A i \in 1 .. Len(o.sections) :
         /\ IsSectionRecord(o.sections[i], SectList[i])
         /\ \A k \in 1 .. Len(o.sections[i].patches) :
              SymbolRefsResolve(o, o.sections[i].patches[k])
    /\ o.nbAsserts = Len(AssertList)
    /\ Len(o.asserts) = Len(AssertList)
    /\ \A i \in 1 .. Len(o.asserts) :
         /\ IsPatchRecord(o.asserts[i].patch,
                          patches[asserts[AssertList[i]].patch])
         /\ o.asserts[i].message = asserts[AssertList[i]].message
         /\ SymbolRefsResolve(o, o.asserts[i].patch)

\* a file with the four nodes, two symbols, a patch that refers to the
\* first symbol in the section with data, the union section and an
\* assertion made outside of any section
C15_Witness ==
  /\ pc = "done"
  /\ RdObject(f).nbNodes = 4
  /\ RdObject(f).nbSymbols = 2
  /\ RdObject(f).sections[1].nbPatches = 1
  /\ RdObject(f).sections[1].patches[1].rpn = <<129, 0, 0, 0, 0>>
  /\ RdObject(f).sections[1].data = <<17, 34>>
  /\ RdObject(f).sections[2].head.isUnion
  /\ RdObject(f).nbAsserts = 1
  /\ RdObject(f).asserts[1].patch.pcSectID = NoID
  /\ \E i \in 1 .. 4 : RdObject(f).nodes[i].iters = <<1, 5>>

(***************************************************************************)
(* C16.  Each count in the file is the number of records of its table:     *)
(* what the phase of a table appends reads as exactly that many records,   *)
(* and the count is the number of registered symbols (those of the sweep   *)
(* included), of registered nodes, of sections in the list, of assertions  *)
(* in the list.  The file of a module without sections in which nothing    *)
(* was registered is the header and four counts of 0.                      *)
(***************************************************************************)
C16_Step ==
  /\ pc = "nodes" /\ pc' = "symbols" =>
       /\ RdLong(f', 17) = Cardinality(Registered)
       /\ RdLong(f', 17) = Len(NodeList)
       /\ RdNodes(f', 21, RdLong(f', 17)).end = Len(f') + 1
  /\ pc = "symbols" /\ pc' = "sections" =>
       /\ RdLong(f', 9) = Cardinality(WithID)
       /\ RdLong(f', 9) = Len(SymList)
       /\ RdSymbols(f', Len(f) + 1, RdLong(f', 9)).end = Len(f') + 1
  /\ pc = "sections" /\ pc' = "asserts" =>
       /\ RdLong(f', 13) = Len(SectList)
       /\ RdSections(f', Len(f) + 1, RdLong(f', 13)).end = Len(f') + 1
  /\ pc = "asserts" /\ pc' = "close" =>
       /\ RdLong(f', Len(f) + 1) = Len(AssertList)
       /\ RdAsserts(f', Len(f) + 5, RdLong(f', Len(f) + 1)).end = Len(f') + 1

C16_Empty ==
  ( /\ pc = "done"
    /\ pSectionList = 0
    /\ Registered = {}
    /\ WithID = {}
    /\ assertions = 0 ) =>
    f = <<82, 71, 66, 57, 6, 0, 0, 0, 0, 0, 0, 0, 0, 0, 0, 0, 0, 0, 0, 0,
          0, 0, 0, 0>>

C16_CountsMatchRecords == [][C16_Step]_vars /\ []C16_Empty

\* no call was made: the sweep registered the exported "b", and with it
\* the included file and the root file; the file has the counts 1, 2, 2, 0
\* and as many records
C16_Witness ==
  /\ pc = "done"
  /\ nCalls = 0
  /\ ~syms[1].isExported
  /\ WithID = {3}
  /\ Registered = {1, 4}
  /\ RdObject(f).nbSymbols = 1
  /\ RdObject(f).nbSections = 2
  /\ RdObject(f).nbNodes = 2
  /\ RdObject(f).nbAsserts = 0
  /\ Len(RdObject(f).symbols) = 1
  /\ RdObject(f).end = Len(f) + 1

\* the file of the module without sections for which no call was made
C16_EmptyModuleWritten ==
  /\ pc = "done"
  /\ pSectionList = 0
  /\ nCalls = 0
  /\ Len(f) = 24

(***************************************************************************)
(* C17.  The section ID written in a patch record or in the record of a    *)
(* defined symbol is the zero-based position of the section in the section *)
(* list, and the record at that position of the section table written from *)
(* the same list is the record of that section; where there is no section  *)
(* the field is all-ones; for a section that is not in the list the        *)
(* process ends in fatalerror and the field is not written (the record     *)
(* stops after the three fields, or after the name, type, node ID and      *)
(* line, that precede it).                                                 *)
(***************************************************************************)
\* the record written had section sect to refer to: ID is the field read
\* back, before is the number of bytes of the record in front of the field
C17_Reference(sect, ID, before) ==
  IF sect = 0 THEN pc' = "sections" /\ ID = NoID
  ELSE IF sect \in SectionsInList
    THEN /\ pc' = "sections"
         /\ ID \in 0 .. Len(SectList) - 1
         /\ SectList[ID + 1] = sect
    ELSE pc' = "fatal" /\ Len(f') = Len(f) + before

C17_Step ==
  /\ \A src \in Nodes, lineNo \in PatchLines, pcSection \in {0} \cup Sections,
        pcOffset \in PatchOffsets :
       ApplyWritepatch(src, lineNo, pcSection, pcOffset) =>
         C17_Reference(pcSection, RdLong(f' \o <<0, 0, 0, 0>>, 13), 12)
  /\ \A sym \in Symbols :
       ApplyWritesymbol(sym) =>
         IF sym_IsDefined(sym)
           THEN C17_Reference(sym_GetSection(sym),
                              RdLong(f' \o <<0, 0, 0, 0>>,
                                     Len(SymbolTab[sym].name) + 11),
                              Len(SymbolTab[sym].name) + 10)
           ELSE pc' = "sections"

\* the section the one record of the file refers to, and the ID in it
C17_Referred ==
  IF patches # <<>> THEN patches[1].pcSection
  ELSE IF sym_IsDefined(objectSymbols) THEN sym_GetSection(objectSymbols)
  ELSE 0
C17_WrittenID ==
  IF patches # <<>> THEN RdPatch(f, 1).pcSectID ELSE RdSymbol(f, 1).sectID
C17_TableStart ==
  IF patches # <<>> THEN RdPatch(f, 1).end ELSE RdSymbol(f, 1).end

C17_Table ==
  pc \in {"asserts", "close", "done"} /\ C17_Referred # 0 =>
    LET tab == RdSections(f, C17_TableStart, Len(SectList)) IN
    /\ Len(tab.recs) = Len(SectList)
    /\ C17_WrittenID + 1 \in 1 .. Len(tab.recs)
    /\ IsSectionRecord(tab.recs[C17_WrittenID + 1], C17_Referred)

C17_SectionIDs == [][C17_Step]_vars /\ []C17_Table

\* a patch whose PC is in section "s" while the list holds "w" alone: the
\* process ended after the 12 bytes in front of the section ID
C17_Witness ==
  /\ pc = "fatal"
  /\ pSectionList = 2
  /\ patches # <<>>
  /\ patches[1].pcSection = 1
  /\ 1 \notin SectionsInList
  /\ Len(f) = 12

\* a patch whose PC is in "w", the second section of the list: ID 1, and
\* the second record of the table has the name "w"
C17_SecondPosition ==
  /\ pc = "done"
  /\ pSectionList = 1
  /\ patches # <<>>
  /\ patches[1].pcSection = 2
  /\ RdPatch(f, 1).pcSectID = 1
  /\ RdSections(f, RdPatch(f, 1).end, 2).recs[2].head.name = <<119>>

\* the label "b" of section "s" written while the list is empty
C17_SymbolOutsideList ==
  /\ pc = "fatal"
  /\ pSectionList = 0
  /\ objectSymbols = 3
  /\ Len(f) = 11

(***************************************************************************)
(* C18.  The PC symbol never has an ID and never is in the object symbol   *)
(* list, during the calls and through the write; an RPN_SYM or             *)
(* RPN_BANK_SYM of it is rewritten with NoID in the ID field, and          *)
(* nbSymbols grows only by the other symbols that were given an ID.        *)
(* The first part fails when the PC is exported: registerExportedSymbol    *)
(* does not look at sym_IsPC.  What holds is that the PC has no ID as long *)
(* as the sweep of out_WriteObject has not run, and that the rewriting is  *)
(* as stated.                                                              *)
(***************************************************************************)
PCSymbol == CHOOSE s \in Symbols : sym_IsPC(s)

C18_NoID == syms[PCSymbol].ID = NoID /\ PCSymbol \notin Range(SymList)

C18_Push(expr) ==
  Len(patches') = Len(patches) + 1 /\ ~expr.isKnown =>
    LET in  == InOps(expr.tRPN)
        out == OutOps(NewPatch.pRPN)
    IN  /\ Len(in) = Len(out)
        /\ \A i \in 1 .. Len(in) :
             ( /\ in[i].op \in {RPN_SYM, RPN_BANK_SYM}
               /\ in[i].arg = SymbolTab[PCSymbol].name ) =>
               out[i] = [op |-> in[i].op, arg |-> NoID]
        /\ syms'[PCSymbol] = syms[PCSymbol]
        /\ nbSymbols' = nbSymbols + Cardinality(WithID' \ WithID)
        /\ PCSymbol \notin WithID'

C18_Step ==
  MakesPatch =>
    /\ \A node \in PatchNodes, sect \in DataSections, expr \in Exprs :
         out_CreatePatch(node, sect, PATCHTYPE_BYTE, expr, 1, "ok")
           => C18_Push(expr)
    /\ \A c \in AssertContexts, expr \in AssertExprs, message \in Messages,
          mem \in {"ok", "message"} :
         out_CreateAssert(c[1], c[2], ASSERT_ERROR, expr, message, 0, mem)
           => C18_Push(expr)

\* the claim as made
C18_PCNeverRegistered == []C18_NoID /\ [][C18_Step]_vars

\* what the code does: only the sweep gives the PC an ID, when the PC is
\* exported, and the rewriting is as stated
C18_SweepStep ==
  syms'[PCSymbol] # syms[PCSymbol] =>
    /\ pc = "sweep"
    /\ syms[PCSymbol].isExported
    /\ syms'[PCSymbol].ID \in nbSymbols .. nbSymbols' - 1 \/ pc' = "fatal"
C18_OnlyTheSweep ==
  [](pc \in {"asm", "sweep"} => C18_NoID) /\ [][C18_Step]_vars
    /\ [][C18_SweepStep]_vars

\* the PC was pushed in a patch, rewritten with NoID, and then, exported,
\* was given the ID 1 by the sweep, before "b"; the file has three symbol
\* records, the second of the name "@"
C18_Witness ==
  /\ pc = "done"
  /\ \E p \in 1 .. Len(patches) :
       /\ Len(patches[p].pRPN) >= 10
       /\ SubSeq(patches[p].pRPN, 1, 10) = <<129, 255, 255, 255, 255,
                                             80, 255, 255, 255, 255>>
  /\ syms[PCSymbol].ID = 1
  /\ SymList = <<2, PCSymbol, 3>>
  /\ RdObject(f).nbSymbols = 3
  /\ RdObject(f).symbols[2].name = <<64>>

(***************************************************************************)
(* C19.  As long as the process has not ended in fatalerror, the parent of *)
(* a node that has an ID has an ID.  In the finished file the parent ID of *)
(* a node record is NoID exactly for the nodes without parent; any other   *)
(* parent ID is the ID of the parent, is below the node count, is not the  *)
(* ID of the node itself, and the record of that ID is the parent's.       *)
(***************************************************************************)
C19_Closed ==
  pc # "fatal" =>
    \A n \in Registered :
      FileStack[n].parent # 0 => FileStack[n].parent \in Registered

C19_File ==
  pc = "done" =>
    LET o == RdObject(f) IN
    /\ Len(o.nodes) = Len(NodeList)
    /\ \A i \in 1 .. Len(o.nodes) :
         LET n   == NodeList[i]
             rec == o.nodes[i]
         IN  /\ nodes[n].ID = o.nbNodes - i
             /\ rec.parentID = NoID <=> FileStack[n].parent = 0
             /\ rec.parentID # NoID =>
                  /\ rec.parentID >= 0
                  /\ rec.parentID < o.nbNodes
                  /\ rec.parentID # nodes[n].ID
                  /\ rec.parentID = nodes[FileStack[n].parent].ID
                  /\ NodeList[o.nbNodes - rec.parentID] = FileStack[n].parent

C19_AncestorClosed == []C19_Closed /\ []C19_File

\* the REPT node 3 was registered while the root file had an ID and the
\* macro 2 between them had none: the file has the four nodes, the record
\* of the REPT with the ID of the macro as its parent ID
C19_Witness ==
  /\ pc = "done"
  /\ nodes[1].ID = 0
  /\ nodes[4].ID = 1
  /\ nodes[3].ID = 2
  /\ nodes[2].ID = 3
  /\ RdObject(f).nbNodes = 4
  /\ RdObject(f).nodes[2].parentID = 3
  /\ RdObject(f).nodes[1].parentID = 0
  /\ RdObject(f).nodes[4].parentID = NoID

(***************************************************************************)
(* C20.  As long as the process has not ended in fatalerror, the node of   *)
(* every patch allocated and of every symbol of the object symbol list has *)
(* an ID, and an ID once given does not change; hence writepatch and       *)
(* writesymbol never stop at their assert on the node ID, and in the       *)
(* finished file the node ID of every patch record, of a section or of an  *)
(* assertion, and of every record of a defined symbol is below the node    *)
(* count.                                                                  *)
(***************************************************************************)
C20_HaveNodes ==
  pc # "fatal" =>
    /\ \A p \in 1 .. Len(patches) : patches[p].src \in Registered
    /\ \A y \in Range(SymList) : SymbolTab[y].src \in Registered

C20_Step ==
  /\ \A n \in Registered : nodes'[n].ID = nodes[n].ID
  /\ Len(patches') >= Len(patches)
  /\ \A p \in 1 .. Len(patches) : patches'[p].src = patches[p].src
  /\ pc' # "fatal" => Range(SymList) \subseteq Range(SymList')
  \* the asserts of writepatch and writesymbol
  /\ pc \in {"symbols", "sections", "asserts"} => pc' # "fatal"

C20_IsNodeID(ID, count) == ID >= 0 /\ ID < count

C20_File ==
  pc = "done" =>
    LET o == RdObject(f) IN
    /\ o.nbNodes = Cardinality(Registered)
    /\ \A i \in 1 .. Len(o.symbols) :
         o.symbols[i].type # SYMTYPE_IMPORT =>
           C20_IsNodeID(o.symbols[i].srcID, o.nbNodes)
    /\ \A i \in 1 .. Len(o.sections) :
         \A k \in 1 .. Len(o.sections[i].patches) :
           C20_IsNodeID(o.sections[i].patches[k].srcID, o.nbNodes)
    /\ \A i \in 1 .. Len(o.asserts) :
         C20_IsNodeID(o.asserts[i].patch.srcID, o.nbNodes)

C20_SourceNodes == []C20_HaveNodes /\ [][C20_Step]_vars /\ []C20_File

\* one patch of a known value made in the REPT, one assertion made in the
\* root file, and "b", defined in the included file, registered by the
\* sweep: the file has four nodes, the patch has the node ID 0, the
\* assertion 2, the symbol 3
C20_Witness ==
  /\ pc = "done"
  /\ Len(patches) = 2
  /\ sectPatches[1] = 1
  /\ patches[1].src = 3
  /\ patches[2].src = 1
  /\ WithID = {3}
  /\ RdObject(f).nbNodes = 4
  /\ RdObject(f).nbAsserts = 1
  /\ RdObject(f).sections[1].patches[1].srcID = 0
  /\ RdObject(f).asserts[1].patch.srcID = 2
  /\ RdObject(f).symbols[1].srcID = 3

=============================================================================
